---- MODULE Spec2Model ----
(***************************************************************************)
(* A model of the open-addressed hash table of src/src/hash_table.py:      *)
(* linear probing, lazy deletion (the DELETED sentinel) and growth by      *)
(* doubling with a full rehash.  Slot i of the Python list _slots is       *)
(* slots[i], for i in 0..capacity-1.                                       *)
(*                                                                         *)
(* Keys are small non-negative Python ints, whose hash is the int itself.  *)
(* Values are hashable Python objects, written as strings: "None" is the   *)
(* object None, "False" the object False, "world" the str.  A threshold is *)
(* an exact fraction [num, den]; capacities are exact fractions too, with  *)
(* the Python type beside them, so that 2.5 and True can be passed.        *)
(*                                                                         *)
(* Spec is the one table and its calls; SpecGet reads it with get;         *)
(* SpecScenario fills a table of the defaults; SpecCollision inserts keys  *)
(* of one home index; SpecFromDict builds the table with from_dict;        *)
(* SpecObjects has a second object beside the table (a table, a copy, a    *)
(* view or an int), with the lists and collections in a heap; SpecProbe    *)
(* runs the generator _probe; SpecReads reads the table in every way;      *)
(* SpecRehash takes a set one statement at a time; SpecChurn sets and      *)
(* deletes without end; SpecEmpty builds tables from empty dictionaries.   *)
(*                                                                         *)
(* The delivery program of src/src/wgups.py and src/src/main.py is beside  *)
(* it: Package objects by identity in objects, the table of packages as    *)
(* the object under each id, the trucks, and the locals of the function    *)
(* under way in frame.  Times are seconds of the day.  SpecPackage         *)
(* compares packages; SpecTruck loads, unloads and delivers on one truck;  *)
(* SpecRoute is nearest_neighbor_route, SpecDeliver deliver_packages,      *)
(* SpecLookup lookup_package_at_time and SpecAssign                        *)
(* assign_packages_to_trucks, each a statement or a turn of a loop at a    *)
(* time.                                                                   *)
(***************************************************************************)
EXTENDS Integers, Sequences, FiniteSets, Bags, TLC

VARIABLES slots, load_factor_threshold, constructed, last, inserted,
          heap, this, other,
          objects, packages, trucks, frame

vars == <<slots, load_factor_threshold, constructed, last, inserted,
          heap, this, other, objects, packages, trucks, frame>>

\* The Package objects, the table of packages, the trucks and the locals of
\* the function of main.py under way: what the hash table alone leaves as it
\* is.
delivery == <<objects, packages, trucks, frame>>

\* What the operations of the one table leave alone.
others == <<inserted, heap, this, other, delivery>>

----------------------------------------------------------------------------
(* Bounds of the model. *)

\* A set that has to grow the table past MaxCapacity slots is not taken.
MaxCapacity == 6

\* The largest capacity a table is constructed with.
MaxInitCapacity == 3

\* The ints keys are taken from, in this order.  Some share a home index at
\* capacity 1, at capacity 2 (0, 4, 2), 3 (4, 1), 4 (0, 4) and 6 (2, 8).
KeyOrder == <<0, 4, 2, 1, 8>>

\* The keys are the first NumKeys ints of KeyOrder.
NumKeys == 3

Keys == {KeyOrder[n] : n \in 1..NumKeys}

Values == {"None", "False", "world"}

----------------------------------------------------------------------------
(* Slots. *)

\* A slot that was never written: the Python object None.
EMPTY == [tag |-> "None"]

\* The sentinel of a lazily deleted slot.
DELETED == [tag |-> "DELETED"]

Pair(key, value) == [tag |-> "Pair", key |-> key, value |-> value]

\* The integer n as a fraction.
Whole(n) == [num |-> n, den |-> 1]

\* a >= b, for fractions with positive denominators.
GE(a, b) == a.num * b.den >= b.num * a.den

\* a < b, for fractions with positive denominators.
LT(a, b) == a.num * b.den < b.num * a.den

DefaultCapacity == 8

\* A default under which the table built by a rehash grows while it is filled.
LowLoadFactorThreshold == [num |-> 2, den |-> 10]

DefaultLoadFactorThreshold == [num |-> 6, den |-> 10]

\* capacity * [None]
NewSlots(capacity) == [i \in 0..(capacity - 1) |-> EMPTY]

Capacity(s) == Cardinality(DOMAIN s)

\* A truth value that takes the sentinel for an empty slot.
TruthyOfPairs(slot) == slot.tag = "Pair"

\* The truth value of a slot: None is false; the sentinel, a plain object, and
\* a Pair, a tuple of two elements, are true whatever the pair holds.
Truthy(slot) == slot # EMPTY

LoadFactor(s) ==
    [num |-> Cardinality({i \in DOMAIN s : Truthy(s[i])}), den |-> Capacity(s)]

\* The set of the pairs in the slots; a pair held by two slots is in it once.
Pairs(s) == {s[i] : i \in {j \in DOMAIN s : s[j] \notin {EMPTY, DELETED}}}

KeysOf(s) == {pair.key : pair \in Pairs(s)}

HashTableLen(s) == Cardinality(Pairs(s))

\* The hash of a small non-negative int is the int.
Hash(key) == key

\* An index taken from the magnitude of the hash.
IndexOfMagnitude(s, key) ==
    (IF Hash(key) < 0 THEN 0 - Hash(key) ELSE Hash(key)) % Capacity(s)

Index(s, key) == Hash(key) % Capacity(s)

\* A probe that steps to the slot before, not to the slot after.
ProbeBackwards(s, key) ==
    [n \in 1..Capacity(s) |-> (Index(s, key) + Capacity(s) - (n - 1)) % Capacity(s)]

\* The indices _probe yields, in order: Capacity(s) of them.
Probe(s, key) ==
    [n \in 1..Capacity(s) |-> (Index(s, key) + (n - 1)) % Capacity(s)]

\* What the generator _probe yields when it is run to its end, step by step:
\* the index it is at, then the indices from the next one on, n in all.
RECURSIVE ProbeYield(_, _, _)
ProbeYield(s, index, n) ==
    IF n = 0 THEN <<>>
    ELSE <<index>> \o ProbeYield(s, (index + 1) % Capacity(s), n - 1)

----------------------------------------------------------------------------
(* Results of an operation. *)

Returned(value) == [kind |-> "return", value |-> value]

Raised(error) == [kind |-> "raise", value |-> error]

----------------------------------------------------------------------------
(* __getitem__, __contains__, __delitem__ *)

\* A lookup that takes a deleted slot for the end of the probe.
RECURSIVE GetItemStoppingAtDeleted(_, _, _)
GetItemStoppingAtDeleted(s, key, n) ==
    IF n > Capacity(s) THEN Raised("KeyError")
    ELSE LET pair == s[Probe(s, key)[n]]
         IN  IF pair = EMPTY \/ pair = DELETED THEN Raised("KeyError")
             ELSE IF pair.key = key THEN Returned(pair.value)
             ELSE GetItemStoppingAtDeleted(s, key, n + 1)

\* A lookup without the raise after the loop: the call returns None when the
\* probe has gone round.
RECURSIVE GetItemWithoutFallback(_, _, _)
GetItemWithoutFallback(s, key, n) ==
    IF n > Capacity(s) THEN Returned("None")
    ELSE LET pair == s[Probe(s, key)[n]]
         IN  IF pair = EMPTY THEN Raised("KeyError")
             ELSE IF pair = DELETED THEN GetItemWithoutFallback(s, key, n + 1)
             ELSE IF pair.key = key THEN Returned(pair.value)
             ELSE GetItemWithoutFallback(s, key, n + 1)

RECURSIVE GetItemFrom(_, _, _)
GetItemFrom(s, key, n) ==
    IF n > Capacity(s) THEN Raised("KeyError")
    ELSE LET pair == s[Probe(s, key)[n]]
         IN  IF pair = EMPTY THEN Raised("KeyError")
             ELSE IF pair = DELETED THEN GetItemFrom(s, key, n + 1)
             ELSE IF pair.key = key THEN Returned(pair.value)
             ELSE GetItemFrom(s, key, n + 1)

GetItem(s, key) == GetItemFrom(s, key, 1)

\* A membership test that takes a stored None for an absent key.
ContainsByValue(s, key) ==
    GetItem(s, key).kind = "return" /\ GetItem(s, key).value # "None"

Contains(s, key) == GetItem(s, key).kind = "return"

\* A delete that marks the first pair it meets, whatever its key.
RECURSIVE DelItemAnyKey(_, _, _)
DelItemAnyKey(s, key, n) ==
    IF n > Capacity(s) THEN [slots |-> s, result |-> Raised("KeyError")]
    ELSE LET index == Probe(s, key)[n]
             pair == s[index]
         IN  IF pair = EMPTY THEN [slots |-> s, result |-> Raised("KeyError")]
             ELSE IF pair = DELETED THEN DelItemAnyKey(s, key, n + 1)
             ELSE [slots |-> [s EXCEPT ![index] = DELETED],
                   result |-> Returned("None")]

\* A delete that empties the slot instead of marking it deleted.
RECURSIVE DelItemEmptying(_, _, _)
DelItemEmptying(s, key, n) ==
    IF n > Capacity(s) THEN [slots |-> s, result |-> Raised("KeyError")]
    ELSE LET index == Probe(s, key)[n]
             pair == s[index]
         IN  IF pair = EMPTY THEN [slots |-> s, result |-> Raised("KeyError")]
             ELSE IF pair = DELETED THEN DelItemEmptying(s, key, n + 1)
             ELSE IF pair.key = key
                  THEN [slots |-> [s EXCEPT ![index] = EMPTY],
                        result |-> Returned("None")]
             ELSE DelItemEmptying(s, key, n + 1)

\* A delete that, when it does not find the key, empties the deleted slots.
RECURSIVE DelItemSweeping(_, _, _)
DelItemSweeping(s, key, n) ==
    LET swept == [slots |-> [i \in DOMAIN s |->
                               IF s[i] = DELETED THEN EMPTY ELSE s[i]],
                  result |-> Raised("KeyError")]
    IN
    IF n > Capacity(s) THEN swept
    ELSE LET index == Probe(s, key)[n]
             pair == s[index]
         IN  IF pair = EMPTY THEN swept
             ELSE IF pair = DELETED THEN DelItemSweeping(s, key, n + 1)
             ELSE IF pair.key = key
                  THEN [slots |-> [s EXCEPT ![index] = DELETED],
                        result |-> Returned("None")]
             ELSE DelItemSweeping(s, key, n + 1)

\* The slots after the loop of __delitem__, and what the call does.
RECURSIVE DelItemFrom(_, _, _)
DelItemFrom(s, key, n) ==
    IF n > Capacity(s) THEN [slots |-> s, result |-> Raised("KeyError")]
    ELSE LET index == Probe(s, key)[n]
             pair == s[index]
         IN  IF pair = EMPTY THEN [slots |-> s, result |-> Raised("KeyError")]
             ELSE IF pair = DELETED THEN DelItemFrom(s, key, n + 1)
             ELSE IF pair.key = key
                  THEN [slots |-> [s EXCEPT ![index] = DELETED],
                        result |-> Returned("None")]
             ELSE DelItemFrom(s, key, n + 1)

DelItem(s, key) == DelItemFrom(s, key, 1)

----------------------------------------------------------------------------
(* get, values *)

\* The argument of a call of get that passes no default.
NoDefault == "omitted"

\* The default parameter of get: None when no default is passed.
DefaultOf(arg) == IF arg = NoDefault THEN "None" ELSE arg

\* A get written as `self[key] or default`: a stored None or False is lost.
GetDefaultOfFalsy(s, key, default) ==
    IF GetItem(s, key).kind = "raise" \/ GetItem(s, key).value \in {"None", "False"}
    THEN Returned(default)
    ELSE GetItem(s, key)

\* table.get(key, default)
GetDefault(s, key, default) ==
    IF GetItem(s, key) = Raised("KeyError")
    THEN Returned(default)
    ELSE GetItem(s, key)

\* table.values: a list with the value of each pair of table.pairs, in the
\* order the set gives them; here the bag of its elements.
ValuesOf(s) ==
    [value \in {pair.value : pair \in Pairs(s)} |->
        Cardinality({pair \in Pairs(s) : pair.value = value})]

----------------------------------------------------------------------------
(* __setitem__ and _resize_and_rehash *)

\* A probe loop that writes into the first deleted slot it meets.
RECURSIVE SetItemReusingDeleted(_, _, _, _)
SetItemReusingDeleted(s, key, value, n) ==
    IF n > Capacity(s) THEN [slots |-> s, written |-> FALSE]
    ELSE LET index == Probe(s, key)[n]
             pair == s[index]
         IN  IF pair = DELETED \/ pair = EMPTY \/ pair.key = key
             THEN [slots |-> [s EXCEPT ![index] = Pair(key, value)],
                   written |-> TRUE]
             ELSE SetItemReusingDeleted(s, key, value, n + 1)

\* A probe loop that writes into the first empty slot and never compares keys.
RECURSIVE SetItemInsertOnly(_, _, _, _)
SetItemInsertOnly(s, key, value, n) ==
    IF n > Capacity(s) THEN [slots |-> s, written |-> FALSE]
    ELSE LET index == Probe(s, key)[n]
             pair == s[index]
         IN  IF pair = EMPTY
             THEN [slots |-> [s EXCEPT ![index] = Pair(key, value)],
                   written |-> TRUE]
             ELSE SetItemInsertOnly(s, key, value, n + 1)

\* The probe loop of __setitem__ from the n-th probed slot on: the slots it
\* leaves, and whether it wrote the pair before the probe ran out.
\* A set that writes to the first slot that is not deleted, whatever its key.
RECURSIVE SetItemOverwriting(_, _, _, _)
SetItemOverwriting(s, key, value, n) ==
    IF n > Capacity(s) THEN [slots |-> s, written |-> FALSE]
    ELSE LET index == Probe(s, key)[n]
         IN  IF s[index] = DELETED THEN SetItemOverwriting(s, key, value, n + 1)
             ELSE [slots |-> [s EXCEPT ![index] = Pair(key, value)], written |-> TRUE]

RECURSIVE SetItemFrom(_, _, _, _)
SetItemFrom(s, key, value, n) ==
    IF n > Capacity(s) THEN [slots |-> s, written |-> FALSE]
    ELSE LET index == Probe(s, key)[n]
             pair == s[index]
         IN  IF pair = DELETED THEN SetItemFrom(s, key, value, n + 1)
             ELSE IF pair = EMPTY \/ pair.key = key
                  THEN [slots |-> [s EXCEPT ![index] = Pair(key, value)],
                        written |-> TRUE]
             ELSE SetItemFrom(s, key, value, n + 1)

RECURSIVE SetItem(_, _, _, _)
RECURSIVE ResizeAndRehash(_)
RECURSIVE RehashInto(_)

\* The copies that copy[key] = value of every pair of the table may leave.
\* The pairs are a Python set, iterated in an order the table does not
\* control: every order is taken, one more pair at a time.  `rehashing` is
\* the set of the copies reached so far, each with the pairs still to be
\* inserted into it; they all have as many.  The copy is made with the
\* default threshold.
RehashInto(rehashing) ==
    IF \A r \in rehashing : r.remaining = {}
    THEN {r.copy : r \in rehashing}
    ELSE RehashInto(UNION {
            UNION { { [copy |-> c.slots, remaining |-> r.remaining \ {pair}] :
                      c \in SetItem(r.copy, DefaultLoadFactorThreshold,
                                    pair.key, pair.value) } :
                    pair \in r.remaining } :
            r \in rehashing })

\* A rehash that stores every pair at its home index, without probing.
ResizeWithoutProbing(s) ==
    LET copy == NewSlots(Capacity(s) * 2)
        at(i) == {pair \in Pairs(s) : Index(copy, pair.key) = i}
    IN  {[i \in DOMAIN copy |->
             IF at(i) = {} THEN EMPTY ELSE CHOOSE pair \in at(i) : TRUE]}

\* A resize that copies the slots to the places they had, deleted ones too.
ResizeCopyingSlots(s) ==
    { [i \in 0..(Capacity(s) * 2 - 1) |-> IF i < Capacity(s) THEN s[i] ELSE EMPTY] }

\* The slot arrays _resize_and_rehash may leave.
ResizeAndRehash(s) ==
    RehashInto({[copy |-> NewSlots(Capacity(s) * 2), remaining |-> Pairs(s)]})

\* A set that grows when writing one more slot would reach the threshold.
SetItemGrowingEarly(s, threshold, key, value) ==
    LET ahead == [num |-> LoadFactor(s).num + 1, den |-> LoadFactor(s).den]
        resize == GE(ahead, threshold)
        bases == IF resize THEN ResizeAndRehash(s) ELSE {s}
    IN  { [slots |-> w.slots, written |-> w.written, resized |-> resize] :
          w \in {SetItemFrom(b, key, value, 1) : b \in bases} }

\* A set that does not grow the table for a key that is stored.
SetItemNotGrowingOnUpdate(s, threshold, key, value) ==
    LET resize == GE(LoadFactor(s), threshold) /\ key \notin KeysOf(s)
        bases == IF resize THEN ResizeAndRehash(s) ELSE {s}
    IN  { [slots |-> w.slots, written |-> w.written, resized |-> resize] :
          w \in {SetItemFrom(b, key, value, 1) : b \in bases} }

\* A set that grows only when the load factor exceeds the threshold.
SetItemGrowingLate(s, threshold, key, value) ==
    LET resize == ~GE(threshold, LoadFactor(s))
        bases == IF resize THEN ResizeAndRehash(s) ELSE {s}
    IN  { [slots |-> w.slots, written |-> w.written, resized |-> resize] :
          w \in {SetItemFrom(b, key, value, 1) : b \in bases} }

\* The outcomes of self[key] = value on slots s of a table with the given
\* threshold.
SetItem(s, threshold, key, value) ==
    LET resize == GE(LoadFactor(s), threshold)
        bases == IF resize THEN ResizeAndRehash(s) ELSE {s}
    IN  { [slots |-> w.slots, written |-> w.written, resized |-> resize] :
          w \in {SetItemFrom(b, key, value, 1) : b \in bases} }

----------------------------------------------------------------------------
(* Construction. *)

\* The arguments a table is constructed with: ints, a float and a bool.
IntArg(n) == [type |-> "int", num |-> n, den |-> 1]

CapacityArgs ==
    {IntArg(n) : n \in (1..MaxInitCapacity) \cup {0, -5}}
    \cup {[type |-> "float", num |-> 5, den |-> 2],
          [type |-> "bool", num |-> 1, den |-> 1]}

\* Thresholds, in tenths: -0.1, 0, 0.6, 1, 1.5.
ThresholdArgs == {[num |-> t, den |-> 10] : t \in {-1, 0, 6, 10, 15}}

\* bool is a subclass of int.
IsInstanceBool(x) == x.type = "bool"

IsInstanceInt(x) == x.type \in {"int", "bool"}

\* A check that forgets that True is an int.
ValidCapacityWithBool(capacity) ==
    ~(~IsInstanceInt(capacity) \/ LT(capacity, Whole(1)))

ValidCapacity(capacity) ==
    ~(IsInstanceBool(capacity) \/ ~IsInstanceInt(capacity) \/ LT(capacity, Whole(1)))

ValidThreshold(threshold) == LT(Whole(0), threshold) /\ GE(Whole(1), threshold)

----------------------------------------------------------------------------
(* from_dict *)

\* The capacity from_dict is called without: the Python object None.
NoneArg == [type |-> "NoneType", num |-> 0, den |-> 1]

\* The truth value of an argument: None and zero are false.
TruthyArg(x) == x # NoneArg /\ x.num # 0

\* The table from_dict has built when it has inserted the items from the n-th
\* on, for each table it may have built before them.
RECURSIVE FromDictItems(_, _, _)
FromDictItems(tables, dictionary, n) ==
    IF n > Len(dictionary) THEN tables
    ELSE FromDictItems(
            UNION { { [slots |-> r.slots, resized |-> table.resized \/ r.resized] :
                      r \in SetItem(table.slots, DefaultLoadFactorThreshold,
                                    dictionary[n].key, dictionary[n].value) } :
                    table \in tables },
            dictionary, n + 1)

\* A from_dict that sizes the table to twice the number of items whatever
\* capacity it is given.
FromDictIgnoringCapacity(dictionary, capacity) ==
    LET initial == IntArg(Len(dictionary) * 2)
    IN  IF ~ValidCapacity(initial) THEN {[result |-> Raised("ValueError")]}
        ELSE { [result |-> Returned("HashTable"), slots |-> table.slots,
                resized |-> table.resized] :
               table \in FromDictItems({[slots |-> NewSlots(initial.num),
                                         resized |-> FALSE]}, dictionary, 1) }

\* A from_dict that sizes the table to the number of items.
FromDictOfLen(dictionary, capacity) ==
    LET initial == IF TruthyArg(capacity) THEN capacity
                   ELSE IntArg(Len(dictionary))
    IN  IF ~ValidCapacity(initial) THEN {[result |-> Raised("ValueError")]}
        ELSE { [result |-> Returned("HashTable"), slots |-> table.slots,
                resized |-> table.resized] :
               table \in FromDictItems({[slots |-> NewSlots(initial.num),
                                         resized |-> FALSE]}, dictionary, 1) }

\* A from_dict that makes a table of one slot for a dictionary with no item.
FromDictOfAtLeastOne(dictionary, capacity) ==
    LET initial == IF TruthyArg(capacity) THEN capacity
                   ELSE IF Len(dictionary) = 0 THEN IntArg(1)
                   ELSE IntArg(Len(dictionary) * 2)
    IN  IF ~ValidCapacity(initial) THEN {[result |-> Raised("ValueError")]}
        ELSE { [result |-> Returned("HashTable"), slots |-> table.slots,
                resized |-> table.resized] :
               table \in FromDictItems({[slots |-> NewSlots(initial.num),
                                         resized |-> FALSE]}, dictionary, 1) }

\* HashTable.from_dict(dictionary, capacity): the outcomes, one for each order
\* in which a rehash may reinsert the pairs.  The dictionary is the sequence
\* of its items, in the order items() gives them.
FromDict(dictionary, capacity) ==
    LET initial == IF TruthyArg(capacity) THEN capacity
                   ELSE IntArg(Len(dictionary) * 2)
    IN  IF ~ValidCapacity(initial) THEN {[result |-> Raised("ValueError")]}
        ELSE { [result |-> Returned("HashTable"), slots |-> table.slots,
                resized |-> table.resized] :
               table \in FromDictItems({[slots |-> NewSlots(initial.num),
                                         resized |-> FALSE]}, dictionary, 1) }

----------------------------------------------------------------------------
(* Objects: the lists and collections are in a heap, and a table or a view  *)
(* holds the place of its list or collection in it, so that two objects may *)
(* hold the same list.  What no object holds is freed.                      *)

\* The places of the heap: two objects and the list a call allocates.
Places == {1, 2, 3}

\* What a place that holds nothing has.
Free == [tag |-> "free"]

\* No object: the place 0 is no place of the heap.
NoObject ==
    [id |-> 0, type |-> "NoneType", ref |-> 0,
     threshold |-> DefaultLoadFactorThreshold, by |-> "none"]

\* An object of identity id and of a type, made by a call, of which the list
\* (_slots, for a table) or the collection is at the place ref.
Object(id, type, ref, threshold, by) ==
    [id |-> id, type |-> type, ref |-> ref, threshold |-> threshold, by |-> by]

NoObjects ==
    /\ heap = [place \in Places |-> Free]
    /\ this = NoObject
    /\ other = NoObject

\* No Package, no table of packages, no truck and no function under way.
NoDelivery ==
    /\ objects = <<>>
    /\ packages = <<>>
    /\ trucks = <<>>
    /\ frame = [pc |-> "none"]

\* The place of a new list of the object of identity id: the place named as
\* the object is, which the list the object drops leaves, or the third place
\* when the object beside it holds that place.
FreshPlace(id, peer) == IF peer.ref # id THEN id ELSE 3

\* The heap with what no object holds freed.
Collected(h, a, b) ==
    [place \in Places |-> IF place \in {a.ref, b.ref} THEN h[place] ELSE Free]

\* An equality of the lists of slots.
EqOfSlots(h, a, b) ==
    IF a.id = b.id THEN TRUE
    ELSE IF a.type # b.type THEN FALSE
    ELSE h[a.ref] = h[b.ref]

\* a == b, for a table a: __eq__.
Eq(h, a, b) ==
    IF a.id = b.id THEN TRUE
    ELSE IF a.type # b.type THEN FALSE
    ELSE Pairs(h[a.ref]) = Pairs(h[b.ref])

\* dict(pairs): the items are in the order in which the set gives its pairs,
\* which is any order.
DictsOf(pairs) ==
    { d \in [1..Cardinality(pairs) -> pairs] :
        \A i, j \in 1..Cardinality(pairs) : d[i] = d[j] => i = j }

\* table.copy(): the slots of the copy, for each order of the pairs and of
\* the rehashes.
Copy(s) ==
    UNION { {outcome.slots : outcome \in FromDict(d, IntArg(Capacity(s)))} :
            d \in DictsOf(Pairs(s)) }

\* keys, values and pairs: what the property gives.
View(s, property) ==
    CASE property = "pairs" -> Pairs(s)
      [] property = "keys" -> KeysOf(s)
      [] property = "values" -> ValuesOf(s)

\* A copy that is a second table on the list of the first.
CopyOnSameList(h, table, place) ==
    { [object |-> Object(2, "HashTable", table.ref, table.threshold, "copy"),
       content |-> h[table.ref]] }

\* table.copy(), as an object: a new table, with the default threshold, on a
\* new list at `place`.
CopyObject(h, table, place) ==
    { [object |-> Object(2, "HashTable", place, DefaultLoadFactorThreshold, "copy"),
       content |-> copied] : copied \in Copy(h[table.ref]) }

\* A view that hands out the list of the table.
ViewOfSlots(h, table, property, place) ==
    [object |-> Object(2, "list", table.ref, DefaultLoadFactorThreshold, property),
     content |-> h[table.ref]]

\* table.pairs, table.keys and table.values, as objects: a new set, or a new
\* list for the values, at `place`.
ViewObject(h, table, property, place) ==
    [object |-> Object(2, IF property = "values" THEN "list" ELSE "set", place,
                       DefaultLoadFactorThreshold, property),
     content |-> View(h[table.ref], property)]

----------------------------------------------------------------------------
(* The state machine: one table, the operations called on it one at a     *)
(* time, and the last call with its outcome.                              *)

\* The key recorded for a call that takes none: an int that is no key.
NoKey == 0 - 1

Call(op, key, value, result) ==
    [op |-> op, key |-> key, value |-> value, result |-> result,
     resized |-> FALSE, written |-> FALSE, stored |-> FALSE, args |-> <<>>]

Init ==
    /\ NoDelivery
    /\ slots = NewSlots(0)
    /\ load_factor_threshold = Whole(0)
    /\ constructed = FALSE
    /\ last = Call("none", NoKey, "None", Returned("None"))
    /\ inserted = <<>>
    /\ NoObjects

\* HashTable(capacity, load_factor_threshold)
Construct(capacity, threshold) ==
    /\ ~constructed
    /\ IF ~ValidCapacity(capacity) \/ ~ValidThreshold(threshold)
       THEN /\ last' = [Call("init", NoKey, "None", Raised("ValueError"))
                           EXCEPT !.args = <<capacity, threshold>>]
            /\ UNCHANGED <<slots, load_factor_threshold, constructed>>
       ELSE /\ slots' = NewSlots(capacity.num)
            /\ load_factor_threshold' = threshold
            /\ constructed' = TRUE
            /\ last' = [Call("init", NoKey, "None", Returned("None"))
                           EXCEPT !.args = <<capacity, threshold>>]

\* A set after which the table that grew has the threshold of the table the
\* rehash built.
SetWithinTakingThreshold(bound, key, value) ==
    /\ constructed
    /\ GE(LoadFactor(slots), load_factor_threshold)
          => Capacity(slots) * 2 <= bound
    /\ \E r \in SetItem(slots, load_factor_threshold, key, value) :
          /\ slots' = r.slots
          /\ load_factor_threshold' =
                IF r.resized THEN DefaultLoadFactorThreshold
                ELSE load_factor_threshold
          /\ last' = [Call("set", key, value, Returned("None"))
                         EXCEPT !.resized = r.resized, !.written = r.written,
                                !.stored = key \in KeysOf(slots)]
    /\ UNCHANGED constructed

\* table[key] = value, on a table that does not grow past `bound` slots.
\* The call is recorded with whether the key was stored when it began.
SetWithin(bound, key, value) ==
    /\ constructed
    /\ GE(LoadFactor(slots), load_factor_threshold)
          => Capacity(slots) * 2 <= bound
    /\ \E r \in SetItem(slots, load_factor_threshold, key, value) :
          /\ slots' = r.slots
          /\ last' = [Call("set", key, value, Returned("None"))
                         EXCEPT !.resized = r.resized, !.written = r.written,
                                !.stored = key \in KeysOf(slots)]
    /\ UNCHANGED <<load_factor_threshold, constructed>>

Set(key, value) == SetWithin(MaxCapacity, key, value)

\* table[key]
Get(key) ==
    /\ constructed
    /\ last' = Call("get", key, "None", GetItem(slots, key))
    /\ UNCHANGED <<slots, load_factor_threshold, constructed>>

\* table.get(key) and table.get(key, default)
GetOrDefault(key, arg) ==
    /\ constructed
    /\ last' = Call("get_default", key, arg, GetDefault(slots, key, DefaultOf(arg)))
    /\ UNCHANGED <<slots, load_factor_threshold, constructed>>

\* key in table
In(key) ==
    /\ constructed
    /\ last' = Call("contains", key, "None",
                    Returned(IF Contains(slots, key) THEN "True" ELSE "False"))
    /\ UNCHANGED <<slots, load_factor_threshold, constructed>>

\* del table[key]
Delete(key) ==
    /\ constructed
    /\ slots' = DelItem(slots, key).slots
    /\ last' = Call("del", key, "None", DelItem(slots, key).result)
    /\ UNCHANGED <<load_factor_threshold, constructed>>

\* A clear that marks every pair deleted instead of taking a new list.
ClearLeavingDeleted ==
    /\ constructed
    /\ slots' = [i \in DOMAIN slots |-> IF slots[i] = EMPTY THEN EMPTY ELSE DELETED]
    /\ last' = Call("clear", NoKey, "None", Returned("None"))
    /\ UNCHANGED <<load_factor_threshold, constructed>>

\* table.clear()
Clear ==
    /\ constructed
    /\ slots' = NewSlots(Capacity(slots))
    /\ last' = Call("clear", NoKey, "None", Returned("None"))
    /\ UNCHANGED <<load_factor_threshold, constructed>>

Next ==
    \/ \E capacity \in CapacityArgs, threshold \in ThresholdArgs :
          Construct(capacity, threshold) /\ UNCHANGED others
    \/ \E key \in Keys, value \in Values : Set(key, value) /\ UNCHANGED others
    \/ \E key \in Keys : Get(key) /\ UNCHANGED others
    \/ \E key \in Keys : In(key) /\ UNCHANGED others
    \/ \E key \in Keys : Delete(key) /\ UNCHANGED others
    \/ Clear /\ UNCHANGED others

Spec == Init /\ [][Next]_vars

----------------------------------------------------------------------------
(* The table read with get, with and without a default, between the calls  *)
(* that write to it.                                                        *)

NextGet ==
    \/ \E capacity \in CapacityArgs, threshold \in ThresholdArgs :
          Construct(capacity, threshold) /\ UNCHANGED others
    \/ \E key \in Keys, value \in Values : Set(key, value) /\ UNCHANGED others
    \/ \E key \in Keys, arg \in {NoDefault, "default"} :
          GetOrDefault(key, arg) /\ UNCHANGED others
    \/ \E key \in Keys : Delete(key) /\ UNCHANGED others
    \/ Clear /\ UNCHANGED others

SpecGet == Init /\ [][NextGet]_vars

----------------------------------------------------------------------------
(* The scenario of a table constructed with the defaults, HashTable(), into *)
(* which distinct keys are inserted one after the other.                    *)

\* A set that has to grow the table past ScenarioMaxCapacity slots is not taken.
ScenarioMaxCapacity == 16

\* Keys of which some share a home index at capacity 8 (0, 8, 16 and 1, 17)
\* and at capacity 16 (0, 16 and 1, 17).
ScenarioKeys == {0, 1, 2, 3, 8, 16, 17}

InitScenario ==
    /\ NoDelivery
    /\ slots = NewSlots(DefaultCapacity)
    /\ load_factor_threshold = DefaultLoadFactorThreshold
    /\ constructed = TRUE
    /\ last = [Call("init", NoKey, "None", Returned("None"))
                  EXCEPT !.args = <<IntArg(DefaultCapacity),
                                    DefaultLoadFactorThreshold>>]
    /\ inserted = <<>>
    /\ NoObjects

\* table[key] = "world", for a key that is not stored.
Insert(key) ==
    /\ key \notin KeysOf(slots)
    /\ SetWithin(ScenarioMaxCapacity, key, "world")

NextScenario ==
    \/ \E key \in ScenarioKeys : Insert(key) /\ UNCHANGED others
    \/ \E key \in ScenarioKeys : Get(key) /\ UNCHANGED others

SpecScenario == InitScenario /\ [][NextScenario]_vars

----------------------------------------------------------------------------
(* Tables built by from_dict from a dictionary, and read afterwards. *)

\* The capacity of the test of from_dict with a capacity of its own.
CustomCapacity == 50

\* The dictionaries: the sequences of items of distinct keys.
Dictionaries ==
    UNION { { d \in [1..n -> [key : Keys, value : Values]] :
                \A i, j \in 1..n : d[i].key = d[j].key => i = j } :
            n \in 0..Cardinality(Keys) }

FromDictCapacityArgs == CapacityArgs \cup {NoneArg, IntArg(CustomCapacity)}

\* HashTable.from_dict(dictionary, capacity), as the first call of a run.
FromDictCall(dictionary, capacity) ==
    /\ ~constructed
    /\ last.op = "none"
    /\ \E outcome \in FromDict(dictionary, capacity) :
          IF outcome.result.kind = "raise"
          THEN /\ last' = [Call("from_dict", NoKey, "None", outcome.result)
                              EXCEPT !.args = <<dictionary, capacity>>]
               /\ UNCHANGED <<slots, load_factor_threshold, constructed>>
          ELSE /\ slots' = outcome.slots
               /\ load_factor_threshold' = DefaultLoadFactorThreshold
               /\ constructed' = TRUE
               /\ last' = [Call("from_dict", NoKey, "None", outcome.result)
                              EXCEPT !.args = <<dictionary, capacity>>,
                                     !.resized = outcome.resized]

NextFromDict ==
    \/ \E dictionary \in Dictionaries, capacity \in FromDictCapacityArgs :
          FromDictCall(dictionary, capacity) /\ UNCHANGED others
    \/ \E key \in Keys : Get(key) /\ UNCHANGED others
    \/ \E key \in Keys : In(key) /\ UNCHANGED others

SpecFromDict == Init /\ [][NextFromDict]_vars

----------------------------------------------------------------------------
(* Two objects: a table, and a second table (constructed, or a copy of the  *)
(* first), a view of the first table, or an int.  Both tables are written   *)
(* to, the tables are compared, and the view is changed.                    *)

\* A set that has to grow a table past ObjectMaxCapacity slots is not taken.
ObjectMaxCapacity == 2

\* The capacities the tables are constructed with.
ObjectCapacities == {1, 2}

\* Keys that share a home index at capacity 1 and at capacity 2.
ObjectKeys == {0, 2}

ObjectValues == {"None", "world"}

InitObjects ==
    /\ NoDelivery
    /\ slots = NewSlots(0)
    /\ load_factor_threshold = Whole(0)
    /\ constructed = FALSE
    /\ inserted = <<>>
    /\ \E capacity \in ObjectCapacities, threshold \in ThresholdArgs :
          /\ ValidThreshold(threshold)
          /\ this = Object(1, "HashTable", 1, threshold, "init")
          /\ heap = [place \in Places |->
                        IF place = 1 THEN NewSlots(capacity) ELSE Free]
          /\ last = [Call("init", NoKey, "None", Returned("None"))
                        EXCEPT !.args = <<IntArg(capacity), threshold>>]
    /\ other = NoObject

\* The object a call is made on, and the object beside it.
Target(name) == IF name = "this" THEN this ELSE other

Peer(name) == IF name = "this" THEN other ELSE this

\* The object the call was made on becomes `object`.
Becomes(name, object) ==
    IF name = "this" THEN this' = object /\ UNCHANGED other
    ELSE other' = object /\ UNCHANGED this

\* table[key] = value, on either table: a table that grows takes the list
\* of the table the rehash built, one that does not is written in place.
SetOn(name, key, value) ==
    /\ Target(name).type = "HashTable"
    /\ GE(LoadFactor(heap[Target(name).ref]), Target(name).threshold)
          => Capacity(heap[Target(name).ref]) * 2 <= ObjectMaxCapacity
    /\ \E r \in SetItem(heap[Target(name).ref], Target(name).threshold, key, value) :
          LET place == IF r.resized THEN FreshPlace(Target(name).id, Peer(name))
                       ELSE Target(name).ref
              table == [Target(name) EXCEPT !.ref = place]
          IN  /\ heap' = Collected([heap EXCEPT ![place] = r.slots],
                                   table, Peer(name))
              /\ Becomes(name, table)
              /\ last' = [Call("set", NoKey, "None", Returned("None"))
                            EXCEPT !.resized = r.resized, !.args = <<name>>]

\* del table[key], on either table: the list is written in place.
DeleteOn(name, key) ==
    /\ Target(name).type = "HashTable"
    /\ heap' = [heap EXCEPT ![Target(name).ref] =
                   DelItem(heap[Target(name).ref], key).slots]
    /\ last' = [Call("del", NoKey, "None", DelItem(heap[Target(name).ref], key).result)
                   EXCEPT !.args = <<name>>]
    /\ UNCHANGED <<this, other>>

\* table.clear(), on either table: the table takes a new list.
ClearOn(name) ==
    /\ Target(name).type = "HashTable"
    /\ LET table == [Target(name) EXCEPT
                        !.ref = FreshPlace(Target(name).id, Peer(name))]
       IN  /\ heap' = Collected(
                         [heap EXCEPT ![table.ref] =
                             NewSlots(Capacity(heap[Target(name).ref]))],
                         table, Peer(name))
           /\ Becomes(name, table)
    /\ last' = [Call("clear", NoKey, "None", Returned("None"))
                   EXCEPT !.args = <<name>>]

\* The second object becomes `made`, whose list or collection is `content`.
Make(made, content) ==
    /\ other' = made
    /\ heap' = Collected([heap EXCEPT ![made.ref] = content], this, made)
    /\ UNCHANGED this

\* other = HashTable(capacity, threshold)
ConstructOther(capacity, threshold) ==
    /\ ValidThreshold(threshold)
    /\ Make(Object(2, "HashTable", FreshPlace(2, this), threshold, "init"),
            NewSlots(capacity))
    /\ last' = [Call("init", NoKey, "None", Returned("None"))
                   EXCEPT !.args = <<IntArg(capacity), threshold>>]

\* other = this.copy()
CopyThis ==
    /\ \E copy \in CopyObject(heap, this, FreshPlace(2, this)) :
          Make(copy.object, copy.content)
    /\ last' = Call("copy", NoKey, "None", Returned("HashTable"))

\* other = this.pairs, this.keys or this.values
TakeView(property) ==
    /\ LET view == ViewObject(heap, this, property, FreshPlace(2, this))
       IN  Make(view.object, view.content)
    /\ last' = Call(property, NoKey, "None", Returned(property))

\* other.clear(), on a view
ClearView ==
    /\ other.type \in {"set", "list"}
    /\ heap' = [heap EXCEPT ![other.ref] =
                   IF other.by = "values" /\ other.ref # this.ref
                   THEN EmptyBag ELSE {}]
    /\ last' = Call("clear_view", NoKey, "None", Returned("None"))
    /\ UNCHANGED <<this, other>>

\* The object 42, an int, in the place of the second object.
OtherInt ==
    /\ other' = Object(2, "int", 0, DefaultLoadFactorThreshold, "int")
    /\ heap' = Collected(heap, this, NoObject)
    /\ last' = Call("int", NoKey, "None", Returned("int"))
    /\ UNCHANGED this

\* this == other
Equals ==
    /\ last' = Call("eq", NoKey, "None",
                    Returned(IF Eq(heap, this, other) THEN "True" ELSE "False"))
    /\ UNCHANGED <<heap, this, other>>

\* What the calls on the two objects leave alone.
rest == <<slots, load_factor_threshold, constructed, inserted, delivery>>

NextObjects ==
    \/ \E name \in {"this", "other"}, key \in ObjectKeys, value \in ObjectValues :
          SetOn(name, key, value) /\ UNCHANGED rest
    \/ \E name \in {"this", "other"}, key \in ObjectKeys :
          DeleteOn(name, key) /\ UNCHANGED rest
    \/ \E name \in {"this", "other"} : ClearOn(name) /\ UNCHANGED rest
    \/ \E capacity \in ObjectCapacities, threshold \in ThresholdArgs :
          ConstructOther(capacity, threshold) /\ UNCHANGED rest
    \/ CopyThis /\ UNCHANGED rest
    \/ \E property \in {"pairs", "keys", "values"} :
          TakeView(property) /\ UNCHANGED rest
    \/ ClearView /\ UNCHANGED rest
    \/ OtherInt /\ UNCHANGED rest
    \/ Equals /\ UNCHANGED rest

SpecObjects == InitObjects /\ [][NextObjects]_vars

----------------------------------------------------------------------------
(* The probe of keys of negative and positive hash, on the tables the sets  *)
(* and deletes of these keys leave.                                         *)

\* Ints whose hash is the int: two negative ones and a positive one.
ProbeKeys == {0 - 7, 0 - 3, 5}

\* list(index for index, pair in table._probe(key))
ProbeCall(key) ==
    /\ constructed
    /\ last' = Call("probe", key, "None",
                    Returned(ProbeYield(slots, Index(slots, key), Capacity(slots))))
    /\ UNCHANGED <<slots, load_factor_threshold, constructed>>

NextProbe ==
    \/ \E capacity \in CapacityArgs, threshold \in ThresholdArgs :
          Construct(capacity, threshold) /\ UNCHANGED others
    \/ \E key \in ProbeKeys : Set(key, "world") /\ UNCHANGED others
    \/ \E key \in ProbeKeys : Delete(key) /\ UNCHANGED others
    \/ \E key \in ProbeKeys : ProbeCall(key) /\ UNCHANGED others

SpecProbe == Init /\ [][NextProbe]_vars

----------------------------------------------------------------------------
(* The table read in every way, between the calls that write to it.         *)

\* Keys that share a home index at capacity 1 and 2, and values.
ReadKeys == {0, 2}

ReadValues == {"None", "world"}

\* len(table), table.capacity, table.load_factor, table.pairs, table.keys
\* and table.values: what each gives.
Measure(s, property) ==
    CASE property = "len" -> HashTableLen(s)
      [] property = "capacity" -> Capacity(s)
      [] property = "load_factor" -> LoadFactor(s)
      [] property \in {"pairs", "keys", "values"} -> View(s, property)

\* len(table) and the properties of the table
Read(property) ==
    /\ constructed
    /\ last' = Call(property, NoKey, "None", Returned(Measure(slots, property)))
    /\ UNCHANGED <<slots, load_factor_threshold, constructed>>

\* table == table and table == 42
Compare(type) ==
    /\ constructed
    /\ LET table == Object(1, "HashTable", 1, load_factor_threshold, "init")
           int == Object(2, "int", 0, DefaultLoadFactorThreshold, "int")
           h == [place \in Places |-> IF place = 1 THEN slots ELSE Free]
       IN  last' = Call("eq", NoKey, type,
                        Returned(IF Eq(h, table, IF type = "int" THEN int ELSE table)
                                 THEN "True" ELSE "False"))
    /\ UNCHANGED <<slots, load_factor_threshold, constructed>>

NextReads ==
    \/ \E capacity \in CapacityArgs, threshold \in ThresholdArgs :
          Construct(capacity, threshold) /\ UNCHANGED others
    \/ \E key \in ReadKeys, value \in ReadValues :
          Set(key, value) /\ UNCHANGED others
    \/ \E key \in ReadKeys : Delete(key) /\ UNCHANGED others
    \/ Clear /\ UNCHANGED others
    \/ \E key \in ReadKeys : Get(key) /\ UNCHANGED others
    \/ \E key \in ReadKeys, arg \in {NoDefault, "default"} :
          GetOrDefault(key, arg) /\ UNCHANGED others
    \/ \E key \in ReadKeys : In(key) /\ UNCHANGED others
    \/ \E property \in {"len", "capacity", "load_factor", "pairs", "keys", "values"} :
          Read(property) /\ UNCHANGED others
    \/ \E type \in {"HashTable", "int"} : Compare(type) /\ UNCHANGED others

SpecReads == Init /\ [][NextReads]_vars

----------------------------------------------------------------------------
(* A set taken one statement at a time: the check of the load factor, the   *)
(* table _resize_and_rehash builds and each pair it inserts into it, the    *)
(* assignment of its list to self._slots, and the write of the pair.  The   *)
(* table is `this`, the local variable copy is `other`, `inserted` holds    *)
(* the pairs the loop has taken, and `last` the call under way with the     *)
(* list the table had when the rehash began.                                *)

\* The variables of the table of the other specifications, not used here.
unused == <<slots, load_factor_threshold, constructed, delivery>>

RehashMaxCapacity == 8

RehashCapacities == {1, 2}

RehashKeys == {0, 2, 5}

InitRehash ==
    /\ NoDelivery
    /\ slots = NewSlots(0)
    /\ load_factor_threshold = Whole(0)
    /\ constructed = FALSE
    /\ inserted = <<>>
    /\ \E capacity \in RehashCapacities, threshold \in ThresholdArgs :
          /\ ValidThreshold(threshold)
          /\ this = Object(1, "HashTable", 1, threshold, "init")
          /\ heap = [place \in Places |->
                        IF place = 1 THEN NewSlots(capacity) ELSE Free]
          /\ last = [Call("init", NoKey, "None", Returned("None"))
                        EXCEPT !.args = <<IntArg(capacity), threshold>>]
    /\ other = NoObject

\* No set is under way.
Idle == last.op \notin {"rehash", "resized"}

\* A table that shares the list of the table it is built from.
CopyPlaceShared(table) == table.ref

\* The place of the list of the table HashTable(capacity * 2) makes: a list
\* of its own.
CopyPlace(table) == FreshPlace(2, table)

\* The pairs the loop of _resize_and_rehash has still to take: self.pairs
\* is read once, when the loop begins.
Remaining == Pairs(last.args[1]) \ {inserted[i] : i \in 1..Len(inserted)}

\* del table[key]
DeleteInPlace(key) ==
    /\ Idle
    /\ heap' = [heap EXCEPT ![this.ref] = DelItem(heap[this.ref], key).slots]
    /\ last' = Call("del", key, "None", DelItem(heap[this.ref], key).result)
    /\ UNCHANGED <<this, other, inserted>>

\* table[key] = value, below the threshold: the pair is written in place.
SetInPlace(key, value) ==
    /\ Idle
    /\ ~GE(LoadFactor(heap[this.ref]), this.threshold)
    /\ heap' = [heap EXCEPT ![this.ref] =
                   SetItemFrom(heap[this.ref], key, value, 1).slots]
    /\ last' = Call("set", key, value, Returned("None"))
    /\ UNCHANGED <<this, other, inserted>>

\* table[key] = value, at the threshold: copy = HashTable(capacity * 2)
ResizeBegin(key, value) ==
    /\ Idle
    /\ GE(LoadFactor(heap[this.ref]), this.threshold)
    /\ Capacity(heap[this.ref]) * 2 <= RehashMaxCapacity
    /\ other' = Object(2, "HashTable", CopyPlace(this),
                       DefaultLoadFactorThreshold, "init")
    /\ heap' = [heap EXCEPT ![CopyPlace(this)] =
                   NewSlots(Capacity(heap[this.ref]) * 2)]
    /\ inserted' = <<>>
    /\ last' = [Call("rehash", key, value, Returned("None"))
                   EXCEPT !.args = <<heap[this.ref]>>]
    /\ UNCHANGED this

\* copy[key] = value, for one more pair of self.pairs
RehashOne ==
    /\ last.op = "rehash"
    /\ \E pair \in Remaining :
          /\ \E r \in SetItem(heap[other.ref], other.threshold, pair.key, pair.value) :
                heap' = [heap EXCEPT ![other.ref] = r.slots]
          /\ inserted' = Append(inserted, pair)
    /\ UNCHANGED <<this, other, last>>

\* self._slots = copy._slots, and copy goes out of scope
RehashSwitch ==
    /\ last.op = "rehash"
    /\ Remaining = {}
    /\ this' = [this EXCEPT !.ref = other.ref]
    /\ other' = NoObject
    /\ heap' = Collected(heap, [this EXCEPT !.ref = other.ref], NoObject)
    /\ last' = [last EXCEPT !.op = "resized"]
    /\ UNCHANGED inserted

\* The loop of __setitem__ after the resize: the pair is written in place.
SetWrite ==
    /\ last.op = "resized"
    /\ heap' = [heap EXCEPT ![this.ref] =
                   SetItemFrom(heap[this.ref], last.key, last.value, 1).slots]
    /\ last' = [last EXCEPT !.op = "set", !.resized = TRUE]
    /\ UNCHANGED <<this, other, inserted>>

NextRehash ==
    \/ \E key \in RehashKeys : DeleteInPlace(key) /\ UNCHANGED unused
    \/ \E key \in RehashKeys : SetInPlace(key, "world") /\ UNCHANGED unused
    \/ \E key \in RehashKeys : ResizeBegin(key, "world") /\ UNCHANGED unused
    \/ RehashOne /\ UNCHANGED unused
    \/ RehashSwitch /\ UNCHANGED unused
    \/ SetWrite /\ UNCHANGED unused

SpecRehash == InitRehash /\ [][NextRehash]_vars

----------------------------------------------------------------------------
(* One key set and deleted in turn, for as long as the table may grow.      *)

ChurnMaxCapacity == 24

ChurnKeys == {0, 5}

\* table[key] = "world", for the key of the run, when the table is empty.
ChurnSet(key) ==
    /\ HashTableLen(slots) = 0
    /\ last.op = "init" \/ last.key = key
    /\ SetWithin(ChurnMaxCapacity, key, "world")

\* del table[key], for the key that was set.
ChurnDelete(key) ==
    /\ HashTableLen(slots) = 1
    /\ last.key = key
    /\ Delete(key)

NextChurn ==
    \/ \E capacity \in CapacityArgs, threshold \in ThresholdArgs :
          Construct(capacity, threshold) /\ UNCHANGED others
    \/ \E key \in ChurnKeys : ChurnSet(key) /\ UNCHANGED others
    \/ \E key \in ChurnKeys : ChurnDelete(key) /\ UNCHANGED others

\* The caller goes on: a set or a delete that can be made is made.
SpecChurn == Init /\ [][NextChurn]_vars /\ WF_vars(NextChurn)

----------------------------------------------------------------------------
(* Tables made from a dictionary, with no item or with one, and copied.     *)

EmptyMaxCapacity == 4

\* The dictionaries with no item and with one.
SmallDictionaries ==
    {<<>>} \cup {<<[key |-> key, value |-> value]>> : key \in ReadKeys, value \in ReadValues}

SmallCapacityArgs == {NoneArg, IntArg(0), IntArg(1), IntArg(2)}

\* table.copy(): from_dict of the pairs with the capacity of the table.  The
\* slots of the copy are recorded with the call.
CopyCall ==
    /\ constructed
    /\ \E d \in DictsOf(Pairs(slots)) :
          \E outcome \in FromDict(d, IntArg(Capacity(slots))) :
             last' = [Call("copy", NoKey, "None", outcome.result)
                         EXCEPT !.args = IF outcome.result.kind = "raise" THEN <<>>
                                         ELSE <<outcome.slots>>]
    /\ UNCHANGED <<slots, load_factor_threshold, constructed>>

NextEmpty ==
    \/ \E dictionary \in SmallDictionaries, capacity \in SmallCapacityArgs :
          FromDictCall(dictionary, capacity) /\ UNCHANGED others
    \/ \E key \in ReadKeys, value \in ReadValues :
          SetWithin(EmptyMaxCapacity, key, value) /\ UNCHANGED others
    \/ \E key \in ReadKeys : Delete(key) /\ UNCHANGED others
    \/ Clear /\ UNCHANGED others
    \/ CopyCall /\ UNCHANGED others

SpecEmpty == Init /\ [][NextEmpty]_vars

----------------------------------------------------------------------------
(* Packages (wgups.py).  A Package object is a record of its attributes;    *)
(* the objects are in `objects`, by identity.  Times are seconds of the     *)
(* day, and "None" is the object None.                                      *)

AT_HUB == "At the hub"

EN_ROUTE == "En route"

DELIVERED == "Delivered"

\* 5 PM, in seconds of the day.
EOD_TIME == 17 * 3600

\* The delivery_time None: no time of the day.
NoTime == 0 - 1

\* Package(id, address, city, state, zip_code, delivery_deadline, weight,
\* notes): the status is AT_HUB and there is no delivery_time.
Package(id, address, city, state, zip_code, delivery_deadline, weight, notes) ==
    [type |-> "Package", id |-> id, address |-> address, city |-> city,
     state |-> state, zip_code |-> zip_code,
     delivery_deadline |-> delivery_deadline, weight |-> weight,
     notes |-> notes, status |-> AT_HUB, delivery_time |-> NoTime]

\* self == that, for a Package self: __eq__.  The state is not compared.
PackageEq(self, that) ==
    IF that.type # "Package" THEN FALSE
    ELSE /\ self.id = that.id
         /\ self.address = that.address
         /\ self.city = that.city
         /\ self.zip_code = that.zip_code
         /\ self.delivery_deadline = that.delivery_deadline
         /\ self.weight = that.weight
         /\ self.notes = that.notes

\* hash(self): the hash of the tuple of eight attributes, the state among
\* them.  The hash of a tuple is written as the tuple: tuples that differ
\* have hashes that differ, but for a collision of 64-bit hashes.
PackageHash(self) ==
    <<self.id, self.address, self.city, self.state, self.zip_code,
      self.delivery_deadline, self.weight, self.notes>>

\* that in {self}: a set looks an element up by its hash, then by identity
\* or ==.
InSetOf(self, that, same) ==
    /\ that.type = "Package"
    /\ PackageHash(that) = PackageHash(self)
    /\ same \/ PackageEq(that, self)

\* that in [self]: a list looks an element up by identity or ==.
InListOf(self, that, same) == same \/ PackageEq(self, that)

\* The int 42, which is no Package.
FortyTwo == [type |-> "int", value |-> 42]

PackageIds == {1, 2}

PackageStates == {"UT", "CO"}

PackageNotes == {"None", "Fragile"}

\* The packages made: of an id, a state and notes, at one address.
SomePackages ==
    { Package(id, "195 W Oakland Ave", "Salt Lake City", state, "84115",
              EOD_TIME, 21, notes) :
      id \in PackageIds, state \in PackageStates, notes \in PackageNotes }

\* Two Package objects, and the int.
InitPackage ==
    /\ slots = NewSlots(0)
    /\ load_factor_threshold = Whole(0)
    /\ constructed = FALSE
    /\ last = Call("none", NoKey, "None", Returned("None"))
    /\ inserted = <<>>
    /\ NoObjects
    /\ \E first \in SomePackages, second \in SomePackages :
          objects = <<first, second, FortyTwo>>
    /\ packages = <<>>
    /\ trucks = <<>>
    /\ frame = [pc |-> "none"]

\* package.status = status
SetStatus(o, status) ==
    /\ objects[o].type = "Package"
    /\ objects' = [objects EXCEPT ![o].status = status]
    /\ last' = [Call("status", NoKey, status, Returned("None")) EXCEPT !.args = <<o>>]

\* package.delivery_time = time
SetDeliveryTime(o, time) ==
    /\ objects[o].type = "Package"
    /\ objects' = [objects EXCEPT ![o].delivery_time = time]
    /\ last' = [Call("delivery_time", NoKey, time, Returned("None")) EXCEPT !.args = <<o>>]

\* a == b, hash(a) and hash(b), b in {a} and b in [a], for a Package a: the
\* hash of the int is the int.
PackageCompare(a, b) ==
    /\ objects[a].type = "Package"
    /\ last' = [Call("package_eq", NoKey, "None",
                     Returned([eq |-> PackageEq(objects[a], objects[b]),
                               hash_self |-> PackageHash(objects[a]),
                               hash_other |-> IF objects[b].type = "Package"
                                              THEN PackageHash(objects[b])
                                              ELSE <<objects[b].value>>,
                               in_set |-> InSetOf(objects[a], objects[b], a = b),
                               in_list |-> InListOf(objects[a], objects[b], a = b)]))
                   EXCEPT !.args = <<a, b>>]
    /\ UNCHANGED objects

\* What the calls on packages leave alone.
tables == <<slots, load_factor_threshold, constructed, inserted, heap, this, other>>

NextPackage ==
    \/ \E o \in 1..2, status \in {EN_ROUTE, DELIVERED} :
          SetStatus(o, status) /\ UNCHANGED <<tables, packages, trucks, frame>>
    \/ \E o \in 1..2 :
          SetDeliveryTime(o, 9 * 3600) /\ UNCHANGED <<tables, packages, trucks, frame>>
    \/ \E a \in 1..2, b \in 1..3 :
          PackageCompare(a, b) /\ UNCHANGED <<tables, packages, trucks, frame>>

SpecPackage == InitPackage /\ [][NextPackage]_vars

----------------------------------------------------------------------------
(* Trucks (wgups.py).  A truck is a record of its attributes; its list      *)
(* packages_on_board holds the identities of Package objects.               *)

HUB_ADDRESS_ID == 0

TRUCK_SPEED_MPH == 18

\* 8 AM, in seconds of the day.
START_TIME == 8 * 3600

\* Truck(id, capacity, ...): a truck at the hub at the start time, with the
\* packages given.
Truck(id, capacity, packages_on_board) ==
    [id |-> id, capacity |-> capacity, speed_mph |-> TRUCK_SPEED_MPH,
     current_location_id |-> HUB_ADDRESS_ID,
     packages_on_board |-> packages_on_board, mileage_traveled |-> 0,
     current_time |-> START_TIME, is_available |-> TRUE, route |-> <<>>,
     delivery_log |-> <<>>]

\* The first index of a list of packages at which the package o is, by
\* identity or by ==, and 0 when it is at none: what `in` and list.remove
\* look for.
IndexIn(list, objs, o) ==
    LET at == {i \in 1..Len(list) : list[i] = o \/ PackageEq(objs[list[i]], objs[o])}
    IN  IF at = {} THEN 0 ELSE CHOOSE i \in at : \A j \in at : i <= j

\* The list without its element at index i.
Without(list, i) == [j \in 1..(Len(list) - 1) |-> IF j < i THEN list[j] ELSE list[j + 1]]

\* An add_package that looks for the object itself among those on board.
AddPackageByIdentity(truck, objs, o) ==
    IF Len(truck.packages_on_board) >= truck.capacity
    THEN [truck |-> truck, result |-> Raised("ValueError")]
    ELSE IF \E i \in 1..Len(truck.packages_on_board) : truck.packages_on_board[i] = o
    THEN [truck |-> truck, result |-> Raised("ValueError")]
    ELSE [truck |-> [truck EXCEPT !.packages_on_board = Append(@, o)],
          result |-> Returned("None")]

\* truck.add_package(package)
AddPackageTo(truck, objs, o) ==
    IF Len(truck.packages_on_board) >= truck.capacity
    THEN [truck |-> truck, result |-> Raised("ValueError")]
    ELSE IF IndexIn(truck.packages_on_board, objs, o) # 0
    THEN [truck |-> truck, result |-> Raised("ValueError")]
    ELSE [truck |-> [truck EXCEPT !.packages_on_board = Append(@, o)],
          result |-> Returned("None")]

\* truck.remove_package(package)
RemovePackageFrom(truck, objs, o) ==
    LET i == IndexIn(truck.packages_on_board, objs, o)
    IN  IF i = 0 THEN [truck |-> truck, result |-> Raised("ValueError")]
        ELSE [truck |-> [truck EXCEPT !.packages_on_board = Without(@, i)],
              result |-> Returned("None")]

\* truck.deliver_package(package, delivery_time): the package and the log
\* are written before list.remove looks for the package.
DeliverPackageFrom(truck, objs, o, delivery_time) ==
    LET delivered == [objs EXCEPT ![o].status = DELIVERED,
                                  ![o].delivery_time = delivery_time]
        logged == [truck EXCEPT !.delivery_log = Append(@, <<objs[o].id, delivery_time>>)]
        i == IndexIn(truck.packages_on_board, delivered, o)
    IN  IF i = 0
        THEN [truck |-> logged, objects |-> delivered, result |-> Raised("ValueError")]
        ELSE [truck |-> [logged EXCEPT !.packages_on_board = Without(@, i)],
              objects |-> delivered, result |-> Returned("None")]

TruckCapacities == {0, 1, 2}

\* No more calls of deliver_package are made than this.
MaxDeliveryLog == 2

\* Three Package objects: two of one id that differ in the state, which are
\* equal, and one of another id.
TruckPackages ==
    << Package(1, "195 W Oakland Ave", "Salt Lake City", "UT", "84115", EOD_TIME, 21, "None"),
       Package(1, "195 W Oakland Ave", "Salt Lake City", "CO", "84115", EOD_TIME, 21, "None"),
       Package(2, "2530 S 500 E", "Salt Lake City", "UT", "84106", EOD_TIME, 44, "None") >>

\* The lists of at most n of the objects, no two of them equal.
DistinctLists(objs, n) ==
    UNION { { list \in [1..k -> DOMAIN objs] :
                \A i, j \in 1..k : i # j => ~PackageEq(objs[list[i]], objs[list[j]]) } :
            k \in 0..n }

\* A truck of a capacity with at most as many packages on board, no two
\* equal.
InitTruck ==
    /\ slots = NewSlots(0)
    /\ load_factor_threshold = Whole(0)
    /\ constructed = FALSE
    /\ last = Call("none", NoKey, "None", Returned("None"))
    /\ inserted = <<>>
    /\ NoObjects
    /\ objects = TruckPackages
    /\ packages = <<>>
    /\ \E capacity \in TruckCapacities :
          \E list \in DistinctLists(TruckPackages, capacity) :
             trucks = [t \in {0} |-> Truck(1, capacity, list)]
    /\ frame = [pc |-> "none"]

\* trucks[t].add_package(objects[o]); the call is recorded with the list the
\* truck had.
AddPackage(t, o) ==
    /\ trucks' = [trucks EXCEPT ![t] = AddPackageTo(trucks[t], objects, o).truck]
    /\ last' = [Call("add_package", NoKey, "None", AddPackageTo(trucks[t], objects, o).result)
                   EXCEPT !.args = <<t, o, trucks[t].packages_on_board>>]
    /\ UNCHANGED objects

\* trucks[t].remove_package(objects[o])
RemovePackage(t, o) ==
    /\ trucks' = [trucks EXCEPT ![t] = RemovePackageFrom(trucks[t], objects, o).truck]
    /\ last' = [Call("remove_package", NoKey, "None",
                     RemovePackageFrom(trucks[t], objects, o).result)
                   EXCEPT !.args = <<t, o, trucks[t].packages_on_board>>]
    /\ UNCHANGED objects

\* trucks[t].deliver_package(objects[o], delivery_time)
DeliverPackage(t, o, delivery_time) ==
    /\ Len(trucks[t].delivery_log) < MaxDeliveryLog
    /\ trucks' = [trucks EXCEPT ![t] =
                     DeliverPackageFrom(trucks[t], objects, o, delivery_time).truck]
    /\ objects' = DeliverPackageFrom(trucks[t], objects, o, delivery_time).objects
    /\ last' = [Call("deliver_package", NoKey, "None",
                     DeliverPackageFrom(trucks[t], objects, o, delivery_time).result)
                   EXCEPT !.args = <<t, o, trucks[t].packages_on_board>>]

NextTruck ==
    \/ \E o \in DOMAIN TruckPackages :
          AddPackage(0, o) /\ UNCHANGED <<tables, packages, frame>>
    \/ \E o \in DOMAIN TruckPackages :
          RemovePackage(0, o) /\ UNCHANGED <<tables, packages, frame>>
    \/ \E o \in DOMAIN TruckPackages :
          DeliverPackage(0, o, 9 * 3600) /\ UNCHANGED <<tables, packages, frame>>

SpecTruck == InitTruck /\ [][NextTruck]_vars

----------------------------------------------------------------------------
(* nearest_neighbor_route (main.py), one turn of its while loop at a time.  *)
(* The parameters and the locals of the call are in `frame`.                *)

TRUCK_CAPACITY == 16

\* The address ids: the hub and three more.
AddressIds == 0..3

\* address_to_id_map
AddressToId ==
    [address \in {"HUB", "195 W Oakland Ave", "2530 S 500 E", "233 Canyon Rd"} |->
        CASE address = "HUB" -> 0
          [] address = "195 W Oakland Ave" -> 1
          [] address = "2530 S 500 E" -> 2
          [] address = "233 Canyon Rd" -> 3]

\* The distances between two addresses that differ.
Distances == {1, 2, 4}

\* The distance matrices: symmetric, as load_distance_data fills them, with
\* 0 from an address to itself.
DistanceMatrices ==
    { [a \in AddressIds |-> [b \in AddressIds |->
          IF a = b THEN 0 ELSE IF a < b THEN d[<<a, b>>] ELSE d[<<b, a>>]]] :
      d \in [{<<a, b>> \in AddressIds \X AddressIds : a < b} -> Distances] }

\* Four Package objects, two of them for one address.
RoutePackages ==
    << Package(1, "195 W Oakland Ave", "Salt Lake City", "UT", "84115", EOD_TIME, 21, "None"),
       Package(2, "195 W Oakland Ave", "Salt Lake City", "UT", "84115", EOD_TIME, 5, "None"),
       Package(3, "2530 S 500 E", "Salt Lake City", "UT", "84106", EOD_TIME, 44, "None"),
       Package(4, "233 Canyon Rd", "Salt Lake City", "UT", "84103", EOD_TIME, 2, "None") >>

\* The lists of packages a truck is loaded with: the objects of a set, in
\* the order of their identities.
RECURSIVE ListOf(_)
ListOf(set) ==
    IF set = {} THEN <<>>
    ELSE LET o == CHOOSE x \in set : \A y \in set : x <= y
         IN  <<o>> \o ListOf(set \ {o})

\* The orders in which a set may give its elements.
OrdersOf(set) ==
    { order \in [1..Cardinality(set) -> set] :
        \A i, j \in 1..Cardinality(set) : order[i] = order[j] => i = j }

\* float('inf') and None: no destination seen yet.
NoNearest == [found |-> FALSE, distance |-> 0, destination |-> 0]

\* The first destination of the order, with no comparison of distances.
FirstIn(order, i, current_location, distance_matrix, nearest) ==
    [found |-> TRUE, distance |-> distance_matrix[current_location][order[1]],
     destination |-> order[1]]

\* The for loop over unvisited, from its element i on: the nearest
\* destination is replaced by one at a distance that is less.
RECURSIVE NearestIn(_, _, _, _, _)
NearestIn(order, i, current_location, distance_matrix, nearest) ==
    IF i > Len(order) THEN nearest
    ELSE LET distance == distance_matrix[current_location][order[i]]
         IN  NearestIn(order, i + 1, current_location, distance_matrix,
                       IF ~nearest.found \/ distance < nearest.distance
                       THEN [found |-> TRUE, distance |-> distance,
                             destination |-> order[i]]
                       ELSE nearest)

\* The locals of a call that has not begun.
RouteFrame(distance_matrix) ==
    [pc |-> "start", distance_matrix |-> distance_matrix,
     address_to_id_map |-> AddressToId, destinations |-> {}, route |-> <<>>,
     current_location |-> 0, unvisited |-> {}]

InitRoute ==
    /\ slots = NewSlots(0)
    /\ load_factor_threshold = Whole(0)
    /\ constructed = FALSE
    /\ last = Call("none", NoKey, "None", Returned("None"))
    /\ inserted = <<>>
    /\ NoObjects
    /\ objects = RoutePackages
    /\ packages = <<>>
    /\ \E on_board \in SUBSET (DOMAIN RoutePackages), location \in {0, 1} :
          trucks = [t \in {0} |->
                      [Truck(1, TRUCK_CAPACITY, ListOf(on_board))
                          EXCEPT !.current_location_id = location]]
    /\ \E distance_matrix \in DistanceMatrices : frame = RouteFrame(distance_matrix)

\* The call up to its while loop: an empty truck returns the empty route.
RouteBegin(t) ==
    /\ frame.pc = "start"
    /\ IF trucks[t].packages_on_board = <<>>
       THEN /\ frame' = [frame EXCEPT !.pc = "done"]
            /\ last' = [Call("nearest_neighbor_route", NoKey, "None", Returned(<<>>))
                           EXCEPT !.args = <<t>>]
       ELSE /\ LET destinations ==
                      { frame.address_to_id_map[objects[trucks[t].packages_on_board[i]].address] :
                        i \in 1..Len(trucks[t].packages_on_board) }
               IN  frame' = [frame EXCEPT !.pc = "loop",
                                          !.destinations = destinations,
                                          !.route = <<>>,
                                          !.current_location = trucks[t].current_location_id,
                                          !.unvisited = destinations]
            /\ UNCHANGED last
    /\ UNCHANGED <<objects, trucks>>

\* One turn of the while loop: the set gives its elements in some order.
RouteStep ==
    /\ frame.pc = "loop"
    /\ frame.unvisited # {}
    /\ \E order \in OrdersOf(frame.unvisited) :
          LET nearest == NearestIn(order, 1, frame.current_location,
                                   frame.distance_matrix, NoNearest)
          IN  frame' = [frame EXCEPT !.route = Append(@, nearest.destination),
                                     !.unvisited = @ \ {nearest.destination},
                                     !.current_location = nearest.destination]
    /\ UNCHANGED <<objects, trucks, last>>

\* return route
RouteReturn(t) ==
    /\ frame.pc = "loop"
    /\ frame.unvisited = {}
    /\ frame' = [frame EXCEPT !.pc = "done"]
    /\ last' = [Call("nearest_neighbor_route", NoKey, "None", Returned(frame.route))
                   EXCEPT !.args = <<t>>]
    /\ UNCHANGED <<objects, trucks>>

NextRoute ==
    \/ RouteBegin(0) /\ UNCHANGED <<tables, packages>>
    \/ RouteStep /\ UNCHANGED <<tables, packages>>
    \/ RouteReturn(0) /\ UNCHANGED <<tables, packages>>

SpecRoute == InitRoute /\ [][NextRoute]_vars

----------------------------------------------------------------------------
(* deliver_packages (main.py), one destination of the route at a time.      *)
(* Times of the day are seconds from midnight, a timedelta is seconds.      *)

\* The seconds of a day: a datetime.time is a time of the day.
Day == 24 * 3600

\* calculate_time_from_distance(distance, speed_mph), in seconds.
CalculateTimeFromDistance(distance, speed_mph) == (distance * 3600) \div speed_mph

\* A sum of the time and the delta that goes on past midnight.
AddTimePastMidnight(time_obj, delta) == time_obj + delta

\* add_time(time_obj, delta): the time of the day of the datetime that is
\* delta after time_obj of today.
AddTime(time_obj, delta) == (time_obj + delta) % Day

\* The routes nearest_neighbor_route may go on to return from a route begun,
\* one for each order in which the set gives the destinations at each turn.
RECURSIVE RoutesFrom(_, _, _, _)
RoutesFrom(route, current_location, unvisited, distance_matrix) ==
    IF unvisited = {} THEN {route}
    ELSE UNION { RoutesFrom(Append(route, nearest), nearest,
                            unvisited \ {nearest}, distance_matrix) :
                 nearest \in { NearestIn(order, 1, current_location,
                                         distance_matrix, NoNearest).destination :
                               order \in OrdersOf(unvisited) } }

\* The routes nearest_neighbor_route(truck, distance_matrix,
\* address_to_id_map) may return.
NearestNeighborRoutes(truck, objs, distance_matrix, address_to_id_map) ==
    IF truck.packages_on_board = <<>> THEN {<<>>}
    ELSE RoutesFrom(<<>>, truck.current_location_id,
                    { address_to_id_map[objs[truck.packages_on_board[i]].address] :
                      i \in 1..Len(truck.packages_on_board) },
                    distance_matrix)

\* truck.get_packages_at_address(address_id, address_to_id_map)
GetPackagesAtAddress(truck, objs, address_id, address_to_id_map) ==
    SelectSeq(truck.packages_on_board,
              LAMBDA o : address_to_id_map[objs[o].address] = address_id)

\* The for loop over the packages at an address, from its element i on:
\* deliver_package, then the status and the delivery_time of the package
\* the table has under the id.  A call that raises ends the loop.
RECURSIVE DeliverEach(_, _, _, _, _, _)
DeliverEach(list, i, truck, objs, table, current_time) ==
    IF i > Len(list) THEN [truck |-> truck, objects |-> objs, result |-> Returned("None")]
    ELSE LET call == DeliverPackageFrom(truck, objs, list[i], current_time)
             id == objs[list[i]].id
         IN  IF call.result.kind = "raise" THEN call
             ELSE IF id \notin DOMAIN table
             THEN [call EXCEPT !.result = Raised("KeyError")]
             ELSE DeliverEach(list, i + 1, call.truck,
                              [call.objects EXCEPT
                                  ![table[id]].status = DELIVERED,
                                  ![table[id]].delivery_time = current_time],
                              table, current_time)

\* The distances of deliver_packages: near and far.
DeliverDistances == {2, 150}

DeliverMatrices ==
    { [a \in AddressIds |-> [b \in AddressIds |->
          IF a = b THEN 0 ELSE IF a < b THEN d[<<a, b>>] ELSE d[<<b, a>>]]] :
      d \in [{<<a, b>> \in AddressIds \X AddressIds : a < b} -> DeliverDistances] }

\* The objects: the four packages, and a second object for the package 1.
DeliverPackagesOf == Append(RoutePackages, RoutePackages[1])

\* The locals of a call that has not begun.
DeliverFrame(distance_matrix) ==
    [pc |-> "start", distance_matrix |-> distance_matrix,
     address_to_id_map |-> AddressToId, current_location |-> 0,
     current_time |-> 0, i |-> 1, on_board |-> <<>>]

\* A truck at the hub with some of the four packages, and the table with
\* every package under its id: for the package 1, the object the truck may
\* have or the second one.
InitDeliver ==
    /\ slots = NewSlots(0)
    /\ load_factor_threshold = Whole(0)
    /\ constructed = FALSE
    /\ last = Call("none", NoKey, "None", Returned("None"))
    /\ inserted = <<>>
    /\ NoObjects
    /\ objects = DeliverPackagesOf
    /\ \E first \in {1, 5} : packages = [id \in 1..4 |-> IF id = 1 THEN first ELSE id]
    /\ \E on_board \in SUBSET (1..4) :
          trucks = [t \in {0} |-> Truck(1, TRUCK_CAPACITY, ListOf(on_board))]
    /\ \E distance_matrix \in DeliverMatrices : frame = DeliverFrame(distance_matrix)

\* truck.route = nearest_neighbor_route(...), and the locals before the loop
DeliverBegin(t) ==
    /\ frame.pc = "start"
    /\ \E route \in NearestNeighborRoutes(trucks[t], objects, frame.distance_matrix,
                                          frame.address_to_id_map) :
          trucks' = [trucks EXCEPT ![t].route = route]
    /\ frame' = [frame EXCEPT !.pc = "loop",
                              !.current_location = trucks[t].current_location_id,
                              !.current_time = trucks[t].current_time,
                              !.i = 1,
                              !.on_board = trucks[t].packages_on_board]
    /\ UNCHANGED <<objects, packages, last>>

\* One turn of the for loop over the route: the truck goes to the
\* destination and delivers every package for it.
DeliverAt(t) ==
    /\ frame.pc = "loop"
    /\ frame.i <= Len(trucks[t].route)
    /\ LET destination_id == trucks[t].route[frame.i]
           distance == frame.distance_matrix[frame.current_location][destination_id]
           travel_time == CalculateTimeFromDistance(distance, trucks[t].speed_mph)
           current_time == AddTime(frame.current_time, travel_time)
           there == [trucks[t] EXCEPT !.mileage_traveled = @ + distance,
                                      !.current_location_id = destination_id,
                                      !.current_time = current_time]
           done == DeliverEach(GetPackagesAtAddress(there, objects, destination_id,
                                                    frame.address_to_id_map),
                               1, there, objects, packages, current_time)
       IN  /\ trucks' = [trucks EXCEPT ![t] = done.truck]
           /\ objects' = done.objects
           /\ IF done.result.kind = "raise"
              THEN /\ frame' = [frame EXCEPT !.pc = "raised", !.current_time = current_time]
                   /\ last' = [Call("deliver_packages", NoKey, "None", done.result)
                                  EXCEPT !.args = <<t>>]
              ELSE /\ frame' = [frame EXCEPT !.current_time = current_time,
                                             !.current_location = destination_id,
                                             !.i = @ + 1]
                   /\ UNCHANGED last
    /\ UNCHANGED packages

\* After the loop: the truck goes back to the hub.
DeliverReturn(t) ==
    /\ frame.pc = "loop"
    /\ frame.i > Len(trucks[t].route)
    /\ LET distance_to_hub ==
              frame.distance_matrix[trucks[t].current_location_id][HUB_ADDRESS_ID]
           travel_time_to_hub ==
              CalculateTimeFromDistance(distance_to_hub, trucks[t].speed_mph)
       IN  trucks' = [trucks EXCEPT
                         ![t].mileage_traveled = @ + distance_to_hub,
                         ![t].current_time = AddTime(@, travel_time_to_hub),
                         ![t].current_location_id = HUB_ADDRESS_ID]
    /\ frame' = [frame EXCEPT !.pc = "done"]
    /\ last' = [Call("deliver_packages", NoKey, "None", Returned("None"))
                   EXCEPT !.args = <<t>>]
    /\ UNCHANGED <<objects, packages>>

NextDeliver ==
    \/ DeliverBegin(0) /\ UNCHANGED tables
    \/ DeliverAt(0) /\ UNCHANGED tables
    \/ DeliverReturn(0) /\ UNCHANGED tables

SpecDeliver == InitDeliver /\ [][NextDeliver]_vars

----------------------------------------------------------------------------
(* lookup_package_at_time (main.py), on a table of two packages.            *)

\* The attributes a Package object has: those __init__ sets.  No other is
\* set anywhere.
PackageAttributes ==
    {"id", "address", "city", "state", "zip_code", "delivery_deadline",
     "weight", "notes", "status", "delivery_time"}

\* package.<attribute>, for an attribute the object has or not.
GetAttr(package, attribute) ==
    IF attribute \in PackageAttributes
    THEN Returned(package[attribute])
    ELSE Raised("AttributeError")

\* A lookup for which the time a package was loaded is the start time.
LookupWithStartTime(package_id, lookup_time, table, objs) ==
    IF package_id \notin DOMAIN table THEN Returned(<<"not found">>)
    ELSE LET package == objs[table[package_id]]
         IN  IF package.delivery_time = NoTime \/ package.delivery_time > lookup_time
             THEN IF START_TIME < lookup_time THEN Returned(<<"en route">>)
                  ELSE Returned(<<"at the hub">>)
             ELSE Returned(<<"delivered at", package.delivery_time>>)

\* lookup_package_at_time(package_id, lookup_time, packages): the string
\* returned, without the id, and with the time of a delivery beside it.
LookupPackageAtTime(package_id, lookup_time, table, objs) ==
    IF package_id \notin DOMAIN table THEN Returned(<<"not found">>)
    ELSE LET package == objs[table[package_id]]
         IN  IF package.delivery_time = NoTime \/ package.delivery_time > lookup_time
             THEN LET loaded_time == GetAttr(package, "loaded_time")
                  IN  IF loaded_time.kind = "raise" THEN loaded_time
                      ELSE IF loaded_time.value < lookup_time THEN Returned(<<"en route">>)
                      ELSE Returned(<<"at the hub">>)
             ELSE Returned(<<"delivered at", package.delivery_time>>)

\* The times of the lookups and of the deliveries, in seconds of the day.
LookupTimes == {8 * 3600, 9 * 3600, 10 * 3600 + 20 * 60}

\* The ids looked up: two of the table and one that is not in it.
LookupIds == {1, 2, 7}

\* The table with two packages at the hub, under their ids.
InitLookup ==
    /\ slots = NewSlots(0)
    /\ load_factor_threshold = Whole(0)
    /\ constructed = FALSE
    /\ last = Call("none", NoKey, "None", Returned("None"))
    /\ inserted = <<>>
    /\ NoObjects
    /\ objects = SubSeq(RoutePackages, 1, 2)
    /\ packages = [id \in 1..2 |-> id]
    /\ trucks = <<>>
    /\ frame = [pc |-> "none"]

\* lookup_package_at_time(package_id, lookup_time, packages)
Lookup(package_id, lookup_time) ==
    /\ last' = [Call("lookup_package_at_time", package_id, "None",
                     LookupPackageAtTime(package_id, lookup_time, packages, objects))
                   EXCEPT !.args = <<package_id, lookup_time>>]
    /\ UNCHANGED objects

NextLookup ==
    \/ \E o \in 1..2, status \in {EN_ROUTE, DELIVERED} :
          SetStatus(o, status) /\ UNCHANGED <<tables, packages, trucks, frame>>
    \/ \E o \in 1..2, time \in LookupTimes :
          SetDeliveryTime(o, time) /\ UNCHANGED <<tables, packages, trucks, frame>>
    \/ \E package_id \in LookupIds, lookup_time \in LookupTimes :
          Lookup(package_id, lookup_time) /\ UNCHANGED <<tables, packages, trucks, frame>>

SpecLookup == InitLookup /\ [][NextLookup]_vars

----------------------------------------------------------------------------
(* assign_packages_to_trucks (main.py), one package and one turn of its     *)
(* while loop at a time, on three trucks of create_trucks.                  *)

\* The notes of the packages.
TRUCK2_NOTE == "Can only be on truck 2"

DELAYED_NOTE == "Delayed on flight---will not arrive to depot until 9:05 am"

WRONG_NOTE == "Wrong address listed"

\* needle in notes, for the notes above.
InNotes(needle, notes) ==
    \/ needle = "Can only be on truck 2" /\ notes = TRUCK2_NOTE
    \/ needle = "Delayed on flight" /\ notes = DELAYED_NOTE
    \/ needle = "Wrong address" /\ notes = WRONG_NOTE

\* The ids of the packages that go together.
GroupedIds == {13, 14, 15, 16, 19, 20}

\* The list a package is put in: the if and elif of the first loop, in
\* their order.  The notes None are falsy.
ListFor(package) ==
    IF package.notes # "None" /\ InNotes("Can only be on truck 2", package.notes)
    THEN "truck2_only"
    ELSE IF package.notes # "None" /\ InNotes("Delayed on flight", package.notes)
    THEN "delayed_packages"
    ELSE IF package.id \in GroupedIds
    THEN "grouped_packages"
    ELSE IF package.delivery_deadline < EOD_TIME
    THEN "early_deadline"
    ELSE IF package.notes # "None" /\ InNotes("Wrong address", package.notes)
    THEN "wrong_address"
    ELSE "regular_packages"

\* The lists that are assigned one after the other before the regular
\* packages, with the index of the truck of each and whether a package is
\* added only when the truck has room.
Listed ==
    << [name |-> "truck2_only", truck |-> 1, guarded |-> FALSE],
       [name |-> "delayed_packages", truck |-> 1, guarded |-> FALSE],
       [name |-> "early_deadline", truck |-> 0, guarded |-> TRUE],
       [name |-> "grouped_packages", truck |-> 0, guarded |-> TRUE],
       [name |-> "wrong_address", truck |-> 2, guarded |-> TRUE] >>

\* create_trucks(): three trucks of TRUCK_CAPACITY at the hub, with the ids
\* 1, 2 and 3, at the indices 0, 1 and 2 of the list.
CreateTrucks == [t \in 0..2 |-> Truck(t + 1, TRUCK_CAPACITY, <<>>)]

\* A package of a kind, with an id: the grouped ones have the ids of the
\* group, the early ones a deadline of 10:30.
PackageOfKind(kind, id) ==
    Package(id, "195 W Oakland Ave", "Salt Lake City", "UT", "84115",
            IF kind = "early_deadline" THEN 10 * 3600 + 30 * 60 ELSE EOD_TIME, 21,
            CASE kind = "truck2_only" -> TRUCK2_NOTE
              [] kind = "delayed_packages" -> DELAYED_NOTE
              [] kind = "wrong_address" -> WRONG_NOTE
              [] OTHER -> "None")

\* The numbers of packages of each kind in the table: none, one, as many as
\* a truck holds, and one more.
Loads ==
    [truck2_only : {0, 16, 17}, delayed_packages : {0, 1},
     early_deadline : {0, 16, 17}, grouped_packages : {0, 6},
     wrong_address : {0, 1}, regular_packages : {0, 1, 17}]

\* The kinds of the packages of a load, kind after kind.
RECURSIVE Repeated(_, _)
Repeated(kind, n) == IF n = 0 THEN <<>> ELSE <<kind>> \o Repeated(kind, n - 1)

KindsOf(load) ==
    Repeated("grouped_packages", load.grouped_packages)
    \o Repeated("truck2_only", load.truck2_only)
    \o Repeated("delayed_packages", load.delayed_packages)
    \o Repeated("early_deadline", load.early_deadline)
    \o Repeated("wrong_address", load.wrong_address)
    \o Repeated("regular_packages", load.regular_packages)

\* The ids of the packages of a load: those of the group first, then 21 and
\* up.
IdOf(load, o) ==
    IF o <= load.grouped_packages THEN <<13, 14, 15, 16, 19, 20>>[o]
    ELSE 20 + o

\* The identities of the objects of a list of the first loop: packages.values
\* gives the packages in an order the table does not control, and those of
\* one list differ in nothing the function reads but the id, so that they
\* are taken in the order of their identities.
PackagesFor(objs, name) == SelectSeq([o \in DOMAIN objs |-> o], LAMBDA o : ListFor(objs[o]) = name)

\* The locals of a call that has not begun.
AssignFrame == [pc |-> "start", lists |-> <<>>, list |-> 1, i |-> 1, truck_index |-> 2]

\* The table of the packages of a load, each at the hub and under its id,
\* and the three trucks.
InitAssign ==
    /\ slots = NewSlots(0)
    /\ load_factor_threshold = Whole(0)
    /\ constructed = FALSE
    /\ last = Call("none", NoKey, "None", Returned("None"))
    /\ inserted = <<>>
    /\ NoObjects
    /\ \E load \in Loads :
          /\ objects = [o \in 1..Len(KindsOf(load)) |->
                          PackageOfKind(KindsOf(load)[o], IdOf(load, o))]
          /\ packages = [id \in {IdOf(load, o) : o \in 1..Len(KindsOf(load))} |->
                           CHOOSE o \in 1..Len(KindsOf(load)) : IdOf(load, o) = id]
    /\ trucks = CreateTrucks
    /\ frame = AssignFrame

\* The first loop: every package of packages.values is put in a list.
AssignBegin ==
    /\ frame.pc = "start"
    /\ frame' = [frame EXCEPT
                    !.pc = "listed",
                    !.lists = [name \in {"truck2_only", "delayed_packages",
                                         "early_deadline", "grouped_packages",
                                         "wrong_address", "regular_packages"} |->
                                  PackagesFor(objects, name)],
                    !.list = 1, !.i = 1]
    /\ UNCHANGED <<objects, trucks, last>>

\* trucks[t].add_package(package) and packages[package.id].status =
\* EN_ROUTE: the trucks and the objects after, or the error raised.
AddAndMark(t, o) ==
    LET call == AddPackageTo(trucks[t], objects, o)
    IN  IF call.result.kind = "raise"
        THEN [trucks |-> trucks, objects |-> objects, result |-> call.result]
        ELSE IF objects[o].id \notin DOMAIN packages
        THEN [trucks |-> [trucks EXCEPT ![t] = call.truck], objects |-> objects,
              result |-> Raised("KeyError")]
        ELSE [trucks |-> [trucks EXCEPT ![t] = call.truck],
              objects |-> [objects EXCEPT ![packages[objects[o].id]].status = EN_ROUTE],
              result |-> Returned("None")]

\* One package of one of the five lists: it is added to the truck of the
\* list, when the truck has room if the list is guarded.
AssignListed ==
    /\ frame.pc = "listed"
    /\ frame.i <= Len(frame.lists[Listed[frame.list].name])
    /\ LET o == frame.lists[Listed[frame.list].name][frame.i]
           t == Listed[frame.list].truck
       IN  IF Listed[frame.list].guarded
              /\ ~(Len(trucks[t].packages_on_board) < TRUCK_CAPACITY)
           THEN /\ frame' = [frame EXCEPT !.i = @ + 1]
                /\ UNCHANGED <<objects, trucks, last>>
           ELSE /\ trucks' = AddAndMark(t, o).trucks
                /\ objects' = AddAndMark(t, o).objects
                /\ IF AddAndMark(t, o).result.kind = "raise"
                   THEN /\ frame' = [frame EXCEPT !.pc = "raised"]
                        /\ last' = Call("assign_packages_to_trucks", NoKey, "None",
                                        AddAndMark(t, o).result)
                   ELSE /\ frame' = [frame EXCEPT !.i = @ + 1]
                        /\ UNCHANGED last

\* The end of one of the five lists: the next list, and after the last the
\* regular packages, from the truck of index 2.
NextList ==
    /\ frame.pc = "listed"
    /\ frame.i > Len(frame.lists[Listed[frame.list].name])
    /\ frame' = IF frame.list < Len(Listed)
                THEN [frame EXCEPT !.list = @ + 1, !.i = 1]
                ELSE [frame EXCEPT !.pc = "regular", !.i = 1, !.truck_index = 2]
    /\ UNCHANGED <<objects, trucks, last>>

\* The next regular package: one that is EN_ROUTE is passed over, for
\* another the while loop begins.
AssignRegular ==
    /\ frame.pc = "regular"
    /\ frame.i <= Len(frame.lists["regular_packages"])
    /\ frame' = IF objects[frame.lists["regular_packages"][frame.i]].status = EN_ROUTE
                THEN [frame EXCEPT !.i = @ + 1]
                ELSE [frame EXCEPT !.pc = "find"]
    /\ UNCHANGED <<objects, trucks, last>>

\* One test of the while loop: a truck that is full gives way to the next
\* index, and the package is added to one that is not.
FindTruck ==
    /\ frame.pc = "find"
    /\ IF Len(trucks[frame.truck_index].packages_on_board) >= TRUCK_CAPACITY
       THEN /\ frame' = [frame EXCEPT !.truck_index = (@ + 1) % 3]
            /\ UNCHANGED <<objects, trucks, last>>
       ELSE LET done == AddAndMark(frame.truck_index,
                                   frame.lists["regular_packages"][frame.i])
            IN  /\ trucks' = done.trucks
                /\ objects' = done.objects
                /\ IF done.result.kind = "raise"
                   THEN /\ frame' = [frame EXCEPT !.pc = "raised"]
                        /\ last' = Call("assign_packages_to_trucks", NoKey, "None",
                                        done.result)
                   ELSE /\ frame' = [frame EXCEPT !.pc = "regular", !.i = @ + 1,
                                                  !.truck_index = (@ + 1) % 3]
                        /\ UNCHANGED last

\* The end of the regular packages: the function returns.
AssignReturn ==
    /\ frame.pc = "regular"
    /\ frame.i > Len(frame.lists["regular_packages"])
    /\ frame' = [frame EXCEPT !.pc = "done"]
    /\ last' = Call("assign_packages_to_trucks", NoKey, "None", Returned("None"))
    /\ UNCHANGED <<objects, trucks>>

NextAssign ==
    \/ AssignBegin /\ UNCHANGED <<tables, packages>>
    \/ AssignListed /\ UNCHANGED <<tables, packages>>
    \/ NextList /\ UNCHANGED <<tables, packages>>
    \/ AssignRegular /\ UNCHANGED <<tables, packages>>
    \/ FindTruck /\ UNCHANGED <<tables, packages>>
    \/ AssignReturn /\ UNCHANGED <<tables, packages>>

\* The function runs: a step it can take is taken.
SpecAssign == InitAssign /\ [][NextAssign]_vars /\ WF_vars(NextAssign)

----------------------------------------------------------------------------
(* The collision tests: keys that share one home index, as the keys of the  *)
(* tests do under a hash patched to return 24, inserted one after the other *)
(* into an empty table.                                                     *)

\* The hash the collision tests patch in.
PatchedHash == 24

\* The capacities the table of the collision tests is constructed with.
CollisionCapacities == {3, 5}

\* A set that has to grow the table past CollisionMaxCapacity slots is not taken.
CollisionMaxCapacity == 12

\* The number of colliding keys.
NumCollidingKeys == 4

\* Ints equal to PatchedHash modulo every capacity a table constructed with
\* 3 or 5 slots takes up to 20 slots: the home index of each is that of 24.
CollidingKeys == {PatchedHash + 60 * n : n \in 0..(NumCollidingKeys - 1)}

InitCollision ==
    /\ NoDelivery
    /\ \E capacity \in CollisionCapacities, threshold \in ThresholdArgs :
          /\ ValidThreshold(threshold)
          /\ slots = NewSlots(capacity)
          /\ load_factor_threshold = threshold
          /\ last = [Call("init", NoKey, "None", Returned("None"))
                        EXCEPT !.args = <<IntArg(capacity), threshold>>]
    /\ constructed = TRUE
    /\ inserted = <<>>
    /\ NoObjects

\* table[key] = "world", for a key that is not stored; the keys inserted are
\* recorded in the order of their insertion.
InsertColliding(key) ==
    /\ key \notin KeysOf(slots)
    /\ SetWithin(CollisionMaxCapacity, key, "world")
    /\ inserted' = Append(inserted, key)
    /\ UNCHANGED <<heap, this, other, delivery>>

NextCollision ==
    \/ \E key \in CollidingKeys : InsertColliding(key)
    \/ \E key \in CollidingKeys : Get(key) /\ UNCHANGED others

SpecCollision == InitCollision /\ [][NextCollision]_vars

----------------------------------------------------------------------------
(* Helpers of the properties. *)

Occupied(slot) == slot.tag = "Pair"

\* The slots occupied with the key.
SlotsOf(s, key) == {i \in DOMAIN s : Occupied(s[i]) /\ s[i].key = key}

\* The slots probed for the key before slot i is.
ProbedBefore(s, key, i) ==
    {Probe(s, key)[m] : m \in {n \in 1..Capacity(s) :
                                 \E l \in (n + 1)..Capacity(s) : Probe(s, key)[l] = i}}

\* Some stored key lies past a deleted slot on its probe path.
PastDeleted(s) ==
    \E i \in DOMAIN s :
       /\ Occupied(s[i])
       /\ \E j \in ProbedBefore(s, s[i].key, i) : s[j] = DELETED

SetDone == last.op = "set"

DeleteDone == last.op = "del" /\ last.result = Returned("None")

----------------------------------------------------------------------------
(* Properties. *)

\* C1: get(k) right after set(k, v) returns v, and the probe loop of set
\* never runs out without having written the pair.
RoundTrip ==
    SetDone => /\ last.written
               /\ GetItem(slots, last.key) = Returned(last.value)

\* A set whose key went past a deleted slot at its home index.
RoundTripWitness ==
    /\ SetDone
    /\ slots[Index(slots, last.key)] = DELETED
    /\ GetItem(slots, last.key) = Returned(last.value)

\* C2: after a successful delete(k), contains(k) is false, get(k) raises
\* KeyError, the pair of k is no longer in pairs() and size() is one less.
DeleteRemoves ==
    [][(last'.op = "del" /\ last'.result = Returned("None"))
         => /\ ~Contains(slots', last'.key)
            /\ GetItem(slots', last'.key) = Raised("KeyError")
            /\ GetItem(slots, last'.key).kind = "return"
            /\ Pair(last'.key, GetItem(slots, last'.key).value) \notin Pairs(slots')
            /\ last'.key \notin KeysOf(slots')
            /\ HashTableLen(slots') = HashTableLen(slots) - 1]_vars

\* A delete that left other keys in the table.
DeleteRemovesWitness ==
    /\ DeleteDone
    /\ HashTableLen(slots) >= 2
    /\ ~Contains(slots, last.key)

\* C3: a set that grows the table leaves pairs() as it was but for the pair
\* of its key, with no pair in two slots, and doubles the capacity.
ResizePreservesContent ==
    [][(last'.op = "set" /\ last'.resized)
         => /\ Pairs(slots') =
                 {pair \in Pairs(slots) : pair.key # last'.key}
                    \cup {Pair(last'.key, last'.value)}
            /\ \A key \in Keys : Cardinality(SlotsOf(slots', key)) <= 1
            /\ Capacity(slots') = 2 * Capacity(slots)]_vars

\* A growing set that rehashed two keys with the same new home index.
ResizePreservesContentWitness ==
    /\ SetDone
    /\ last.resized
    /\ \E j, k \in KeysOf(slots) \ {last.key} :
          j # k /\ Index(slots, j) = Index(slots, k)

\* C4: get(k) and delete(k) raise KeyError exactly when k is not stored, and
\* a key stored with None is found: get returns None and contains is true.
KeyErrorIffAbsent ==
    constructed =>
       /\ \A key \in Keys :
             /\ GetItem(slots, key) = Raised("KeyError") <=> SlotsOf(slots, key) = {}
             /\ DelItem(slots, key).result = Raised("KeyError")
                   <=> SlotsOf(slots, key) = {}
             /\ Contains(slots, key) <=> SlotsOf(slots, key) # {}
       /\ \A pair \in Pairs(slots) : GetItem(slots, pair.key) = Returned(pair.value)

\* A get that returned a stored None from a table with a deleted slot and an
\* absent key.
KeyErrorIffAbsentWitness ==
    /\ last.op = "get"
    /\ last.result = Returned("None")
    /\ \E i \in DOMAIN slots : slots[i] = DELETED
    /\ \E key \in Keys : GetItem(slots, key) = Raised("KeyError")

\* C5: no key occupies two slots.
KeyUniqueness ==
    \A key \in Keys : Cardinality(SlotsOf(slots, key)) <= 1

\* A set of a stored key that lies past a deleted slot.
KeyUniquenessWitness ==
    /\ SetDone
    /\ last.stored
    /\ ~last.resized
    /\ \E i \in SlotsOf(slots, last.key) :
          \E j \in ProbedBefore(slots, last.key, i) : slots[j] = DELETED

\* C6: every stored key is probed before any empty slot is, and is found by
\* get, also past deleted slots.
Reachability ==
    \A i \in DOMAIN slots :
       Occupied(slots[i]) =>
          /\ \A j \in ProbedBefore(slots, slots[i].key, i) : slots[j] # EMPTY
          /\ GetItem(slots, slots[i].key) = Returned(slots[i].value)

\* A delete that left its deleted slot on the probe path of a stored key.
ReachabilityWitness ==
    /\ DeleteDone
    /\ \E i \in DOMAIN slots :
          /\ Occupied(slots[i])
          /\ Index(slots, slots[i].key) = Index(slots, last.key)
          /\ \E j \in ProbedBefore(slots, slots[i].key, i) : slots[j] = DELETED

\* C7: a set of a stored key leaves size() as it was and get(k) returns the
\* value set; so does the second of two sets of a key in a row.
IdempotentUpdate ==
    [][(last'.op = "set" /\ (last'.key \in KeysOf(slots)
                             \/ (last.op = "set" /\ last.key = last'.key)))
         => /\ HashTableLen(slots') = HashTableLen(slots)
            /\ GetItem(slots', last'.key) = Returned(last'.value)]_vars

\* A set of a stored key that grew the table.
IdempotentUpdateWitness ==
    /\ SetDone
    /\ last.stored
    /\ last.resized
    /\ HashTableLen(slots) >= 2

\* C10: a capacity that is no positive int, or a threshold outside (0, 1],
\* raises ValueError and makes no table; any other construction makes a
\* table of that capacity with every slot empty.
InvalidConstructionRejected ==
    last.op = "init" =>
       LET capacity == last.args[1]
           threshold == last.args[2]
           good == /\ capacity.type = "int"
                   /\ capacity.den = 1
                   /\ capacity.num >= 1
                   /\ threshold.num > 0
                   /\ threshold.num <= threshold.den
       IN  IF good
           THEN /\ last.result = Returned("None")
                /\ constructed
                /\ Capacity(slots) = capacity.num
                /\ \A i \in DOMAIN slots : slots[i] = EMPTY
                /\ HashTableLen(slots) = 0
                /\ load_factor_threshold = threshold
           ELSE /\ last.result = Raised("ValueError")
                /\ ~constructed

\* A construction with True as the capacity, which was rejected.
InvalidConstructionRejectedWitness ==
    /\ last.op = "init"
    /\ last.args[1].type = "bool"
    /\ last.args[2] = DefaultLoadFactorThreshold
    /\ last.result = Raised("ValueError")

\* C8 as stated: a set that would push the load factor to or above the
\* threshold grows the table before it writes its pair.
GrowBeforeMutation ==
    [][(/\ last'.op = "set"
        /\ GE(LoadFactor(SetItemFrom(slots, last'.key, last'.value, 1).slots),
              load_factor_threshold))
         => Capacity(slots') = 2 * Capacity(slots)]_vars

\* C8, amended: a set grows the table exactly when the load factor is at or
\* above the threshold as the call begins, and then writes its pair into the
\* rehashed slots, which hold no deleted slot; any other set, also one that
\* pushes the load factor to the threshold, writes into the slots as they are.
GrowWhenAtThreshold ==
    [][last'.op = "set" =>
         IF GE(LoadFactor(slots), load_factor_threshold)
         THEN /\ Capacity(slots') = 2 * Capacity(slots)
              /\ \A i \in DOMAIN slots' : slots'[i] # DELETED
              /\ LoadFactor(slots').num = Cardinality(KeysOf(slots) \cup {last'.key})
              /\ GetItem(slots', last'.key) = Returned(last'.value)
         ELSE \E i \in DOMAIN slots :
                 /\ slots[i] # DELETED
                 /\ slots' = [slots EXCEPT ![i] = Pair(last'.key, last'.value)]]_vars

\* A set that pushed the load factor to the threshold and did not grow.
GrowWhenAtThresholdWitness ==
    /\ SetDone
    /\ ~last.resized
    /\ ~last.stored
    /\ GE(LoadFactor(slots), load_factor_threshold)
    /\ LT(LoadFactor(slots), Whole(1))

\* C9 as stated: after 5 distinct keys are inserted into HashTable(), the
\* capacity is 16, the 5 keys are retrievable and the load factor is 5/16.
ScenarioFiveKeys ==
    (SetDone /\ HashTableLen(slots) = 5) =>
       /\ Capacity(slots) = 16
       /\ \A key \in KeysOf(slots) : GetItem(slots, key) = Returned("world")
       /\ LoadFactor(slots) = [num |-> 5, den |-> 16]

\* C9, amended: after 5 distinct keys are inserted into HashTable(), the
\* capacity is still 8, the 5 keys are retrievable and the load factor is
\* 5/8; the 6th insert grows the table to capacity 16, with the 6 keys
\* retrievable and a load factor of 6/16.
ScenarioSixKeys ==
    /\ (SetDone /\ HashTableLen(slots) = 5) =>
          /\ Capacity(slots) = 8
          /\ ~last.resized
          /\ GetItem(slots, last.key) = Returned("world")
          /\ \A key \in KeysOf(slots) : GetItem(slots, key) = Returned("world")
          /\ LoadFactor(slots) = [num |-> 5, den |-> 8]
    /\ (SetDone /\ HashTableLen(slots) = 6) =>
          /\ Capacity(slots) = 16
          /\ last.resized
          /\ GetItem(slots, last.key) = Returned("world")
          /\ \A key \in KeysOf(slots) : GetItem(slots, key) = Returned("world")
          /\ LoadFactor(slots) = [num |-> 6, den |-> 16]

\* The 6th insert, which grew the table.
ScenarioSixKeysWitness ==
    /\ SetDone
    /\ HashTableLen(slots) = 6
    /\ Capacity(slots) = 16

----------------------------------------------------------------------------
(* Properties of sizes, of get with a default, of the capacity and of the  *)
(* keys a set leaves alone.                                                *)

\* C13: size() is the number of occupied slots, which is the number of
\* pairs, of keys and of values; load_factor() is the number of occupied and
\* deleted slots over the capacity; so size() <= load_factor() * capacity
\* <= capacity, the first strictly when and only when a slot is deleted.
SizeAndLoadFactor ==
    constructed =>
       LET occupied == {i \in DOMAIN slots : Occupied(slots[i])}
           deleted == {i \in DOMAIN slots : slots[i] = DELETED}
       IN  /\ HashTableLen(slots) = Cardinality(occupied)
           /\ Cardinality(Pairs(slots)) = Cardinality(occupied)
           /\ Cardinality(KeysOf(slots)) = Cardinality(occupied)
           /\ BagCardinality(ValuesOf(slots)) = Cardinality(occupied)
           /\ LoadFactor(slots).num = Cardinality(occupied) + Cardinality(deleted)
           /\ LoadFactor(slots).den = Capacity(slots)
           /\ HashTableLen(slots) <= LoadFactor(slots).num
           /\ LoadFactor(slots).num <= Capacity(slots)
           /\ (HashTableLen(slots) < LoadFactor(slots).num) <=> (deleted # {})

\* A table with two pairs of the same value and a deleted slot.
SizeAndLoadFactorWitness ==
    /\ constructed
    /\ HashTableLen(slots) = 2
    /\ \E value \in Values : ValuesOf(slots) = (value :> 2)
    /\ \E i \in DOMAIN slots : slots[i] = DELETED
    /\ LoadFactor(slots).num = 3

\* C14: get with a default never raises and leaves the table as it was: it
\* returns the value stored with the key, whatever the value and the default
\* are, and the default, None when none is passed, for a key that is not
\* stored.
GetOrDefaultTotal ==
    [][last'.op = "get_default"
         => /\ slots' = slots
            /\ last'.result.kind = "return"
            /\ \A i \in SlotsOf(slots, last'.key) :
                  last'.result.value = slots[i].value
            /\ SlotsOf(slots, last'.key) = {}
                  => last'.result.value =
                        (IF last'.value = NoDefault THEN "None" ELSE last'.value)]_vars

\* A get with a default of a key stored with None past a deleted slot, while
\* another key is not stored.
GetOrDefaultTotalWitness ==
    /\ last.op = "get_default"
    /\ last.value = "default"
    /\ last.result = Returned("None")
    /\ \E i \in SlotsOf(slots, last.key) : ProbedBefore(slots, last.key, i) # {}
    /\ \E key \in Keys : GetDefault(slots, key, "default") = Returned("default")

\* C18: the capacity never shrinks: get, contains, delete and clear leave it
\* as it is, and a set leaves it as it is or doubles it, once.
CapacityOnlyDoubles ==
    [][constructed
         => /\ Capacity(slots') >= Capacity(slots)
            /\ last'.op \in {"get", "contains", "del", "clear"}
                  => Capacity(slots') = Capacity(slots)
            /\ last'.op = "set"
                  => Capacity(slots') \in {Capacity(slots), 2 * Capacity(slots)}]_vars

\* A set that grew a table of threshold 1 which had grown before.
CapacityOnlyDoublesWitness ==
    /\ SetDone
    /\ last.resized
    /\ GE(load_factor_threshold, Whole(1))
    /\ Capacity(slots) = 4
    /\ HashTableLen(slots) >= 2

\* C20: a set of key k leaves get and contains of every other key as they
\* were, whether the table grew or not, and the keys after it are the keys
\* before it and k.
SetAffectsOnlyItsKey ==
    [][last'.op = "set"
         => /\ \A j \in Keys \ {last'.key} :
                  /\ GetItem(slots', j) = GetItem(slots, j)
                  /\ Contains(slots', j) = Contains(slots, j)
            /\ KeysOf(slots') = KeysOf(slots) \cup {last'.key}]_vars

\* A growing set of a new key that left a stored key and an absent key alone.
SetAffectsOnlyItsKeyWitness ==
    /\ SetDone
    /\ last.resized
    /\ ~last.stored
    /\ \E j \in Keys \ {last.key} : Contains(slots, j)
    /\ \E j \in Keys \ {last.key} : ~Contains(slots, j)
    /\ \E i \in DOMAIN slots : Occupied(slots[i]) /\ Index(slots, slots[i].key) # i

----------------------------------------------------------------------------
(* Properties of colliding keys. *)

\* The slot the n-th key of a run of colliding keys goes to.
CollisionSlot(n) == (PatchedHash + (n - 1)) % Capacity(slots)

\* The keys inserted are in the slots that follow the home index, in the
\* order of their insertion.
InInsertionOrder ==
    \A n \in 1..Len(inserted) :
       /\ Occupied(slots[CollisionSlot(n)])
       /\ slots[CollisionSlot(n)].key = inserted[n]

\* C11, as the specification states it: n distinct keys of one home index h,
\* inserted into an empty table, are in the slots h, h+1, ..., h+n-1 (mod
\* capacity), in the order of their insertion.
CollidingKeysInInsertionOrder == InInsertionOrder

\* C11, as the code has it: the keys are in the n slots that follow the home
\* index at the capacity the table has, and in the order of their insertion
\* as long as no insert has grown the table.
CollidingKeysConsecutive ==
    /\ \A key \in CollidingKeys : Index(slots, key) = CollisionSlot(1)
    /\ {slots[CollisionSlot(n)] : n \in 1..Len(inserted)}
          = {Pair(inserted[n], "world") : n \in 1..Len(inserted)}
    /\ \A i \in DOMAIN slots :
          i \notin {CollisionSlot(n) : n \in 1..Len(inserted)} => slots[i] = EMPTY
    /\ Capacity(slots) \in CollisionCapacities => InInsertionOrder

\* Three keys inserted without growth, the run wrapping past the last slot.
CollidingKeysConsecutiveWitness ==
    /\ Len(inserted) = 3
    /\ Capacity(slots) \in CollisionCapacities
    /\ CollisionSlot(1) > CollisionSlot(3)
    /\ InInsertionOrder

----------------------------------------------------------------------------
(* Properties of from_dict. *)

FromDictDone == last.op = "from_dict"

\* The pairs of a dictionary.
ItemsOf(dictionary) ==
    {Pair(dictionary[i].key, dictionary[i].value) : i \in DOMAIN dictionary}

\* The bag of the values of a dictionary.
BagOfValues(dictionary) ==
    [value \in {dictionary[i].value : i \in DOMAIN dictionary} |->
        Cardinality({i \in DOMAIN dictionary : dictionary[i].value = value})]

\* A positive int passed for the capacity.
ExplicitCapacity(capacity) == capacity.type = "int" /\ capacity.num >= 1

\* C15: from_dict without a capacity, of a dictionary of n >= 1 items, gives
\* a table of exactly 2n slots that did not grow while it was filled, whose
\* keys, values and pairs are those of the dictionary.
FromDictDefaultCapacity ==
    (FromDictDone /\ last.args[2] = NoneArg /\ Len(last.args[1]) >= 1)
       => /\ last.result = Returned("HashTable")
          /\ constructed
          /\ ~last.resized
          /\ Capacity(slots) = 2 * Len(last.args[1])
          /\ Pairs(slots) = ItemsOf(last.args[1])
          /\ KeysOf(slots) = {last.args[1][i].key : i \in DOMAIN last.args[1]}
          /\ ValuesOf(slots) = BagOfValues(last.args[1])

\* A table built without a capacity in which a key is not at its home index.
FromDictDefaultCapacityWitness ==
    /\ FromDictDone
    /\ last.args[2] = NoneArg
    /\ Len(last.args[1]) >= 2
    /\ \E i \in DOMAIN slots : Occupied(slots[i]) /\ Index(slots, slots[i].key) # i

\* C16 as stated: from_dict with a capacity c gives a table of capacity c
\* that holds exactly the pairs of the dictionary.
FromDictKeepsCapacity ==
    (FromDictDone /\ ExplicitCapacity(last.args[2]))
       => /\ last.result = Returned("HashTable")
          /\ Capacity(slots) = last.args[2].num
          /\ Pairs(slots) = ItemsOf(last.args[1])

\* C16, amended: from_dict with a capacity c >= 1 gives a table that holds
\* exactly the pairs of the dictionary; its capacity is c when and only when
\* no insert found the load factor at 0.6, which is when the n items satisfy
\* (n - 1) / c < 0.6, and c doubled once or more otherwise.
FromDictInitialCapacity ==
    (FromDictDone /\ ExplicitCapacity(last.args[2]))
       => LET c == last.args[2].num
              n == Len(last.args[1])
          IN  /\ last.result = Returned("HashTable")
              /\ constructed
              /\ Pairs(slots) = ItemsOf(last.args[1])
              /\ (Capacity(slots) = c) <=> (10 * (n - 1) < 6 * c)
              /\ (Capacity(slots) = c) <=> ~last.resized
              /\ Capacity(slots) \in {c, 2 * c, 4 * c, 8 * c}

\* A table built with a capacity it outgrew twice.
FromDictInitialCapacityWitness ==
    /\ FromDictDone
    /\ ExplicitCapacity(last.args[2])
    /\ last.resized
    /\ Capacity(slots) = 4 * last.args[2].num
    /\ Len(last.args[1]) = 3

----------------------------------------------------------------------------
(* Properties of two objects: equality, copies and views. *)

\* The slots of a table.
SlotsAt(h, table) == h[table.ref]

\* The occupied slots of the first table.
OccupiedSlots(h) == {i \in DOMAIN SlotsAt(h, this) : Occupied(SlotsAt(h, this)[i])}

\* C12: two tables compare equal when and only when their pairs are the same
\* set, which is when every key is looked up alike in both, whatever their
\* capacities, thresholds, slots and deleted slots are; a table compares
\* equal to itself, and to no object of another type.
EqualityByContent ==
    last.op = "eq" =>
       /\ Eq(heap, this, this)
       /\ IF other.type = "HashTable"
          THEN /\ (last.result = Returned("True"))
                     <=> (Pairs(SlotsAt(heap, this)) = Pairs(SlotsAt(heap, other)))
               /\ (last.result = Returned("True"))
                     <=> \A key \in ObjectKeys :
                            GetItem(SlotsAt(heap, this), key)
                               = GetItem(SlotsAt(heap, other), key)
               /\ Eq(heap, other, this) = Eq(heap, this, other)
          ELSE last.result = Returned("False")

\* Two equal tables that hold a pair and whose capacities, thresholds and
\* slots differ, one of them with a deleted slot.
EqualityByContentWitness ==
    /\ last.op = "eq"
    /\ last.result = Returned("True")
    /\ other.type = "HashTable"
    /\ other.threshold # this.threshold
    /\ SlotsAt(heap, this) # SlotsAt(heap, other)
    /\ HashTableLen(SlotsAt(heap, this)) >= 1
    /\ Capacity(SlotsAt(heap, this)) # Capacity(SlotsAt(heap, other))
    /\ \E i \in DOMAIN SlotsAt(heap, other) : SlotsAt(heap, other)[i] = DELETED

\* C17: copy() gives another table, on another list, whose pairs are those
\* of the table and which compares equal to it, and leaves the table as it
\* is; afterwards a set, a delete or a clear of either table leaves the
\* pairs of the other as they are.
CopyIsIndependent ==
    [][/\ last'.op = "copy"
            => /\ other'.type = "HashTable"
               /\ other'.id # this'.id
               /\ other'.ref # this'.ref
               /\ Pairs(SlotsAt(heap', other')) = Pairs(SlotsAt(heap', this'))
               /\ Eq(heap', this', other')
               /\ this' = this
               /\ SlotsAt(heap', this) = SlotsAt(heap, this)
       /\ (other.type = "HashTable" /\ last'.op \in {"set", "del", "clear"})
            => /\ last'.args = <<"this">>
                    => Pairs(SlotsAt(heap', other')) = Pairs(SlotsAt(heap, other))
               /\ last'.args = <<"other">>
                    => Pairs(SlotsAt(heap', this')) = Pairs(SlotsAt(heap, this))]_vars

\* A copy of a table of two pairs that holds them after one was deleted from
\* the table.
CopyIsIndependentWitness ==
    /\ other.by = "copy"
    /\ last.op = "del"
    /\ last.args = <<"this">>
    /\ last.result = Returned("None")
    /\ HashTableLen(SlotsAt(heap, other)) = 2
    /\ HashTableLen(SlotsAt(heap, this)) = 1

\* C19: keys, values and pairs each give a new collection of exactly the
\* entries of the occupied slots; a later set, delete or clear of the table
\* leaves a collection given before as it is, and a change of the collection
\* leaves the table as it is.
ViewsAreSnapshots ==
    [][/\ last'.op \in {"pairs", "keys", "values"}
            => /\ other'.ref # this'.ref
               /\ this' = this
               /\ SlotsAt(heap', this) = SlotsAt(heap, this)
               /\ last'.op = "pairs"
                    => SlotsAt(heap', other')
                          = {SlotsAt(heap, this)[i] : i \in OccupiedSlots(heap)}
               /\ last'.op = "keys"
                    => SlotsAt(heap', other')
                          = {SlotsAt(heap, this)[i].key : i \in OccupiedSlots(heap)}
               /\ last'.op = "values"
                    => SlotsAt(heap', other')
                          = [value \in {SlotsAt(heap, this)[i].value :
                                          i \in OccupiedSlots(heap)} |->
                               Cardinality({i \in OccupiedSlots(heap) :
                                              SlotsAt(heap, this)[i].value = value})]
       /\ (other.type \in {"set", "list"} /\ last'.op \in {"set", "del", "clear"})
            => /\ other' = other
               /\ SlotsAt(heap', other) = SlotsAt(heap, other)
       /\ last'.op = "clear_view"
            => /\ this' = this
               /\ this.ref # other.ref
               /\ SlotsAt(heap', this) = SlotsAt(heap, this)]_vars

\* The pairs given before a delete, which hold the pair deleted, beside a
\* table with a deleted slot.
ViewsAreSnapshotsWitness ==
    /\ other.by = "pairs"
    /\ last.op = "del"
    /\ last.result = Returned("None")
    /\ Cardinality(SlotsAt(heap, other)) = 2
    /\ HashTableLen(SlotsAt(heap, this)) = 1
    /\ \E i \in DOMAIN SlotsAt(heap, this) : SlotsAt(heap, this)[i] = DELETED

----------------------------------------------------------------------------
(* Properties of clear, of the threshold, of the deleted slots and of the  *)
(* slots a delete and a rehash leave.                                      *)

DeletedSlots(s) == {i \in DOMAIN s : s[i] = DELETED}

\* C21: clear empties the table: the size is 0, pairs() is empty, every slot
\* is empty, the deleted ones too, so that the load factor is 0; the capacity
\* is the one held before the call; and every set that follows is read back.
ClearEmpties ==
    [][last'.op = "clear"
         => /\ HashTableLen(slots') = 0
            /\ Pairs(slots') = {}
            /\ \A i \in DOMAIN slots' : slots'[i] = EMPTY
            /\ LoadFactor(slots').num = 0
            /\ Capacity(slots') = Capacity(slots)
            /\ load_factor_threshold' = load_factor_threshold
            /\ \A key \in Keys, value \in Values :
                  \A r \in SetItem(slots', load_factor_threshold', key, value) :
                     /\ r.written
                     /\ GetItem(r.slots, key) = Returned(value)]_vars

\* A cleared table that had grown to 6 slots.
ClearEmptiesWitness ==
    /\ last.op = "clear"
    /\ Capacity(slots) = 6
    /\ \A i \in DOMAIN slots : slots[i] = EMPTY

\* C22: no call changes the threshold the table was constructed with, and a
\* table that has grown still grows by it: a set grows the table when and
\* only when the load factor is at or above that threshold.
ThresholdSurvivesResize ==
    [][/\ (last'.op = "init" /\ last'.result = Returned("None"))
            => load_factor_threshold' = last'.args[2]
       /\ constructed
            => /\ load_factor_threshold' = load_factor_threshold
               /\ last'.op = "set"
                    => (last'.resized
                          <=> GE(LoadFactor(slots), load_factor_threshold))]_vars

\* A table of threshold 1 that has grown to 4 slots, and that a set found
\* with 3 of them taken did not grow.
ThresholdSurvivesResizeWitness ==
    /\ SetDone
    /\ ~last.resized
    /\ last.stored
    /\ GE(load_factor_threshold, Whole(1))
    /\ Capacity(slots) = 4
    /\ LoadFactor(slots).num = 3

\* C23: a set grows the table when and only when the load factor is at or
\* above the threshold as the call begins, also when the key is stored, and
\* the probe for the key runs on the slots the whole rehash has left.
ResizeTrigger ==
    [][last'.op = "set"
         => /\ last'.resized <=> GE(LoadFactor(slots), load_factor_threshold)
            /\ last'.resized
                 => \E base \in ResizeAndRehash(slots) :
                       /\ Pairs(base) = Pairs(slots)
                       /\ slots' = SetItemFrom(base, last'.key, last'.value, 1).slots
            /\ ~last'.resized
                 => slots' = SetItemFrom(slots, last'.key, last'.value, 1).slots]_vars

\* A set of a stored key that grew the table.
ResizeTriggerWitness ==
    /\ SetDone
    /\ last.resized
    /\ last.stored
    /\ HashTableLen(slots) >= 2

\* C24: a set that does not grow the table writes one slot, which was empty
\* or held the key, and leaves every deleted slot deleted; the deleted slots
\* become fewer only by a set that grows the table and by clear; and a set
\* of a key right after its delete stores it past a deleted slot.
TombstonesNeverReused ==
    [][constructed
         => /\ (last'.op = "set" /\ ~last'.resized)
                 => /\ DeletedSlots(slots') = DeletedSlots(slots)
                    /\ \E i \in DOMAIN slots :
                          /\ slots[i] = EMPTY \/ i \in SlotsOf(slots, last'.key)
                          /\ slots' = [slots EXCEPT
                                         ![i] = Pair(last'.key, last'.value)]
            /\ (last'.op # "clear" /\ ~(last'.op = "set" /\ last'.resized))
                 => DeletedSlots(slots) \subseteq DeletedSlots(slots')
            /\ (DeleteDone /\ last'.op = "set" /\ ~last'.resized
                   /\ last'.key = last.key)
                 => \E i \in SlotsOf(slots', last'.key) :
                       \E j \in ProbedBefore(slots', last'.key, i) :
                          slots'[j] = DELETED]_vars

\* A set of a key that is not stored, past two deleted slots.
TombstonesNeverReusedWitness ==
    /\ SetDone
    /\ ~last.resized
    /\ ~last.stored
    /\ \E i \in SlotsOf(slots, last.key) :
          Cardinality(ProbedBefore(slots, last.key, i) \cap DeletedSlots(slots)) >= 2

\* C25: the slots a rehash leaves, in whatever order it reinserts the pairs,
\* hold no deleted slot and hold each pair that was stored once, with no
\* empty slot before it on the probe of its key at the new capacity; the set
\* that grew the table wrote into such slots.
ResizeCompacts ==
    [][(last'.op = "set" /\ last'.resized)
         => /\ \A base \in ResizeAndRehash(slots) :
                  /\ Capacity(base) = 2 * Capacity(slots)
                  /\ DeletedSlots(base) = {}
                  /\ {base[i] : i \in {j \in DOMAIN base : Occupied(base[j])}}
                        = Pairs(slots)
                  /\ Cardinality({i \in DOMAIN base : Occupied(base[i])})
                        = HashTableLen(slots)
                  /\ \A i \in DOMAIN base :
                        Occupied(base[i])
                           => \A j \in ProbedBefore(base, base[i].key, i) :
                                 Occupied(base[j])
            /\ DeletedSlots(slots') = {}
            /\ \E base \in ResizeAndRehash(slots) :
                  slots' = SetItemFrom(base, last'.key, last'.value, 1).slots]_vars

\* A table of threshold 1 that grew while it held a deleted slot: it was
\* full with fewer pairs than slots.
ResizeCompactsWitness ==
    /\ SetDone
    /\ last.resized
    /\ ~last.stored
    /\ GE(load_factor_threshold, Whole(1))
    /\ 2 * (HashTableLen(slots) - 1) < Capacity(slots)
    /\ HashTableLen(slots) >= 2

\* C29: a delete that succeeds marks the one slot that held the key deleted
\* and leaves every other slot, the capacity and the load factor as they
\* were.
DeleteChangesOneSlot ==
    [][(last'.op = "del" /\ last'.result = Returned("None"))
         => /\ Cardinality(SlotsOf(slots, last'.key)) = 1
            /\ \E i \in SlotsOf(slots, last'.key) :
                  slots' = [slots EXCEPT ![i] = DELETED]
            /\ Capacity(slots') = Capacity(slots)
            /\ LoadFactor(slots') = LoadFactor(slots)
            /\ load_factor_threshold' = load_factor_threshold]_vars

\* A delete in a table that holds another pair and a slot deleted before.
DeleteChangesOneSlotWitness ==
    /\ DeleteDone
    /\ Cardinality(DeletedSlots(slots)) >= 2
    /\ HashTableLen(slots) >= 1
    /\ LT(LoadFactor(slots), Whole(1))

----------------------------------------------------------------------------
(* Properties of the probe that goes round the whole table. *)

\* No slot is empty.
Full(s) == \A i \in DOMAIN s : s[i] # EMPTY

\* The probe of the key meets the key or an empty slot.
Resolves(s, key) ==
    \E n \in 1..Capacity(s) :
       \/ s[Probe(s, key)[n]] = EMPTY
       \/ Probe(s, key)[n] \in SlotsOf(s, key)

----------------------------------------------------------------------------
(* Properties of the probe. *)

\* C27: the probe of a key in a table of c slots yields c indices: first the
\* hash of the key modulo c, which is in 0..c-1 for a negative hash too, then
\* each time the index before plus 1 modulo c, so that every index of
\* 0..c-1 is yielded once; and it leaves the table as it is.
ProbeSequence ==
    [][last'.op = "probe"
         => LET yielded == last'.result.value
                c == Capacity(slots)
            IN  /\ slots' = slots
                /\ load_factor_threshold' = load_factor_threshold
                /\ Len(yielded) = c
                /\ yielded[1] = Hash(last'.key) % c
                /\ yielded[1] \in 0..(c - 1)
                /\ \A n \in 1..(c - 1) : yielded[n + 1] = (yielded[n] + 1) % c
                /\ {yielded[n] : n \in 1..c} = 0..(c - 1)
                /\ yielded = Probe(slots, last'.key)]_vars

\* The probe of a key of negative hash that wraps round in a table of 6
\* slots.
ProbeSequenceWitness ==
    /\ last.op = "probe"
    /\ last.key < 0
    /\ Capacity(slots) = 6
    /\ last.result.value[1] > last.result.value[6]
    /\ last.result.value[1] # (0 - last.key) % 6

----------------------------------------------------------------------------
(* Properties of the calls that read. *)

\* C28: but for set, clear and a delete that succeeds, every call leaves
\* each slot, the deleted ones too, the capacity and the threshold as they
\* were: get, get with a default, contains, len, capacity, load_factor,
\* keys, values, pairs and ==, and a get and a delete that raise KeyError.
OnlyWritesChange ==
    [][(/\ constructed
        /\ last'.op # "set"
        /\ last'.op # "clear"
        /\ ~(last'.op = "del" /\ last'.result = Returned("None")))
         => /\ last'.op \in {"get", "get_default", "contains", "len", "capacity",
                             "load_factor", "pairs", "keys", "values", "eq", "del"}
            /\ last'.op = "del" => last'.result = Raised("KeyError")
            /\ slots' = slots
            /\ Capacity(slots') = Capacity(slots)
            /\ load_factor_threshold' = load_factor_threshold]_vars

\* A delete that raised KeyError after it probed past a deleted slot, in a
\* table that holds a pair.
OnlyWritesChangeWitness ==
    /\ last.op = "del"
    /\ last.result = Raised("KeyError")
    /\ slots[Index(slots, last.key)] = DELETED
    /\ HashTableLen(slots) >= 1

----------------------------------------------------------------------------
(* Properties of the rehash, one statement at a time. *)

\* C30: while the pairs are inserted into the table the rehash builds, the
\* table has the list it had, which is not the list written to, with every
\* pair it held; after the one assignment it has a list of twice the slots
\* that holds every pair and no deleted slot, one a whole rehash leaves; and
\* a set that resized leaves what a set taken as a whole leaves.
NoPartialRehash ==
    /\ last.op = "rehash"
          => /\ other.ref # this.ref
             /\ heap[this.ref] = last.args[1]
             /\ Capacity(heap[other.ref]) = Capacity(heap[this.ref]) * 2
             /\ Pairs(heap[other.ref]) = {inserted[i] : i \in 1..Len(inserted)}
    /\ last.op = "resized"
          => /\ Capacity(heap[this.ref]) = Capacity(last.args[1]) * 2
             /\ Pairs(heap[this.ref]) = Pairs(last.args[1])
             /\ DeletedSlots(heap[this.ref]) = {}
             /\ heap[this.ref] \in ResizeAndRehash(last.args[1])
    /\ (last.op = "set" /\ last.resized)
          => heap[this.ref] \in
                {r.slots : r \in SetItem(last.args[1], this.threshold,
                                         last.key, last.value)}

\* A rehash under way of a table that holds pairs and a deleted slot, of
\* which one pair is inserted and another is still to be.
NoPartialRehashWitness ==
    /\ last.op = "rehash"
    /\ Len(inserted) >= 1
    /\ Remaining # {}
    /\ DeletedSlots(heap[this.ref]) # {}

----------------------------------------------------------------------------
(* Properties of one key set and deleted in turn. *)

\* C31: a set of a table of which the slots that are not empty, deleted ones
\* counted, are at the threshold doubles the capacity, whatever the number
\* of pairs; so, with one key set and deleted in turn, the table never holds
\* more than one pair and every capacity it has leads to twice that
\* capacity, as far as the table may grow.
TombstonesForceResize ==
    /\ [][(last'.op = "set" /\ GE(LoadFactor(slots), load_factor_threshold))
            => /\ Capacity(slots') = Capacity(slots) * 2
               /\ last'.resized]_vars
    /\ [](HashTableLen(slots) <= 1)
    /\ \A c \in 1..(ChurnMaxCapacity \div 2) :
          (constructed /\ Capacity(slots) = c /\ c * 2 <= ChurnMaxCapacity)
             ~> (Capacity(slots) = c * 2)

\* A set that grew a table that held no pair, to four times the capacity it
\* was constructed with.
TombstonesForceResizeWitness ==
    /\ last.op = "set"
    /\ last.resized
    /\ ~last.stored
    /\ HashTableLen(slots) = 1
    /\ Capacity(slots) >= 8

----------------------------------------------------------------------------
(* Properties of the dictionary and the table with no item. *)

\* C32: from_dict of a dictionary with no item and no capacity raises
\* ValueError and no table is made; copy of a table with no pair returns a
\* table of the capacity of the table, with no pair.
EmptyMapping ==
    /\ (last.op = "from_dict" /\ Len(last.args[1]) = 0 /\ last.args[2] = NoneArg)
          => /\ last.result = Raised("ValueError")
             /\ ~constructed
             /\ slots = NewSlots(0)
    /\ (last.op = "copy" /\ HashTableLen(slots) = 0)
          => /\ last.result = Returned("HashTable")
             /\ Capacity(last.args[1]) = Capacity(slots)
             /\ Pairs(last.args[1]) = {}

\* from_dict of the dictionary with no item, with no capacity.
EmptyMappingWitness ==
    /\ last.op = "from_dict"
    /\ Len(last.args[1]) = 0
    /\ last.args[2] = NoneArg
    /\ last.result.kind = "raise"

\* copy of a table with no pair and a deleted slot.
EmptyCopyWitness ==
    /\ last.op = "copy"
    /\ HashTableLen(slots) = 0
    /\ DeletedSlots(slots) # {}
    /\ last.result = Returned("HashTable")

----------------------------------------------------------------------------
(* Properties of packages. *)

\* C39, as the specification states it: two packages that are equal have
\* equal hashes and each is in a set that holds the other, whatever status
\* and delivery_time either has.
PackageEqualImpliesHashEqual ==
    (last.op = "package_eq" /\ last.result.value.eq)
       => /\ last.result.value.hash_self = last.result.value.hash_other
          /\ last.result.value.in_set

----------------------------------------------------------------------------
(* Properties of trucks. *)

\* No two packages of the list are equal.
Distinct(list, objs) ==
    \A i, j \in 1..Len(list) : i # j => ~PackageEq(objs[list[i]], objs[list[j]])

\* The package o is in the list, by identity or ==.
OnBoard(list, objs, o) ==
    \E i \in 1..Len(list) : list[i] = o \/ PackageEq(objs[list[i]], objs[o])

\* C33: a truck holds no more packages than its capacity and no two that
\* are equal, after every add_package, remove_package and deliver_package,
\* those that raise too; add_package raises ValueError when the truck is
\* full or holds the package, and only then, and remove_package when the
\* truck does not hold the package, and only then; a call that raises
\* leaves the list as it was, an add_package that returns appends the
\* package, and a remove_package or deliver_package that returns takes one
\* package out.
TruckLoad ==
    LET truck == trucks[0]
        list == truck.packages_on_board
        before == last.args[3]
        o == last.args[2]
    IN  /\ Len(list) <= truck.capacity
        /\ Distinct(list, objects)
        /\ last.op = "add_package"
              => /\ last.result = Raised("ValueError")
                    <=> (Len(before) >= truck.capacity \/ OnBoard(before, objects, o))
                 /\ last.result # Raised("ValueError")
                    => last.result = Returned("None") /\ list = Append(before, o)
        /\ last.op \in {"remove_package", "deliver_package"}
              => /\ last.result = Raised("ValueError") <=> ~OnBoard(before, objects, o)
                 /\ last.result # Raised("ValueError")
                    => /\ last.result = Returned("None")
                       /\ Len(list) = Len(before) - 1
                       /\ ~OnBoard(list, objects, o)
        /\ (last.op \in {"add_package", "remove_package", "deliver_package"}
            /\ last.result = Raised("ValueError"))
              => list = before

\* An add_package that raised for a package equal to one on board that is
\* not that object, on a truck that is not full.
TruckLoadWitness ==
    /\ last.op = "add_package"
    /\ last.result = Raised("ValueError")
    /\ Len(last.args[3]) < trucks[0].capacity
    /\ \A i \in 1..Len(last.args[3]) : last.args[3][i] # last.args[2]

----------------------------------------------------------------------------
(* Properties of the route. *)

\* The address ids of the packages on board a truck.
DestinationsOf(truck, objs, address_to_id_map) ==
    { address_to_id_map[objs[truck.packages_on_board[i]].address] :
      i \in 1..Len(truck.packages_on_board) }

\* Each element of the route is, of the destinations that are none of the
\* elements before it, one at the least distance from the element before
\* it, and the first one from `from`.
Greedy(route, from, destinations, distance_matrix) ==
    \A i \in 1..Len(route) :
       LET previous == IF i = 1 THEN from ELSE route[i - 1]
       IN  \A d \in destinations \ {route[j] : j \in 1..(i - 1)} :
              distance_matrix[previous][route[i]] <= distance_matrix[previous][d]

\* C34: the call goes on until it returns, each turn of its loop taking one
\* destination from those unvisited; the route returned holds the
\* destination of every package on board once, and nothing else; each of its
\* elements is nearest to the one before it among those not yet in the
\* route, the first to the location of the truck.
NearestNeighborRoute ==
    LET destinations == DestinationsOf(trucks[0], objects, frame.address_to_id_map)
    IN  /\ frame.pc # "done" => ENABLED NextRoute
        /\ frame.pc = "loop"
              => /\ Len(frame.route) + Cardinality(frame.unvisited)
                       = Cardinality(destinations)
                 /\ frame.unvisited \subseteq destinations
        /\ frame.pc = "done"
              => /\ last.op = "nearest_neighbor_route"
                 /\ last.result.kind = "return"
                 /\ {last.result.value[i] : i \in 1..Len(last.result.value)} = destinations
                 /\ Len(last.result.value) = Cardinality(destinations)
                 /\ Greedy(last.result.value, trucks[0].current_location_id,
                           destinations, frame.distance_matrix)

\* A route of three destinations for four packages, two of them at the
\* distance 4 from the truck and one at the distance 2.
NearestNeighborRouteWitness ==
    /\ frame.pc = "done"
    /\ Len(trucks[0].packages_on_board) = 4
    /\ Len(last.result.value) = 3
    /\ frame.distance_matrix[0] = [a \in AddressIds |-> CASE a = 0 -> 0 [] a = 2 -> 2 [] OTHER -> 4]
    /\ trucks[0].current_location_id = 0

----------------------------------------------------------------------------
(* Properties of deliver_packages. *)

\* The call has returned and: the truck has no package on board and is at
\* the hub; every package it had is DELIVERED with a delivery_time, the
\* object of the truck and the object of the table; the log has one entry
\* for each, in the order of the route.
Delivered ==
    LET truck == trucks[0]
        log == truck.delivery_log
    IN  /\ last.op = "deliver_packages"
        /\ last.result = Returned("None")
        /\ truck.packages_on_board = <<>>
        /\ truck.current_location_id = HUB_ADDRESS_ID
        /\ \A k \in 1..Len(frame.on_board) :
              LET o == frame.on_board[k]
              IN  /\ objects[o].status = DELIVERED
                  /\ objects[o].delivery_time # NoTime
                  /\ objects[packages[objects[o].id]].status = DELIVERED
                  /\ objects[packages[objects[o].id]].delivery_time
                        = objects[o].delivery_time
                  /\ Cardinality({n \in 1..Len(log) : log[n][1] = objects[o].id}) = 1
        /\ Len(log) = Len(frame.on_board)
        /\ \A n \in 1..Len(log) :
              \E k \in 1..Len(truck.route) :
                 /\ truck.route[k] = frame.address_to_id_map[
                                        objects[packages[log[n][1]]].address]
                 /\ \A m \in 1..(n - 1) :
                       \E j \in 1..k :
                          truck.route[j] = frame.address_to_id_map[
                                              objects[packages[log[m][1]]].address]

\* The delivery times of the log do not go down.
TimesInOrder ==
    \A n \in 1..(Len(trucks[0].delivery_log) - 1) :
       trucks[0].delivery_log[n][2] <= trucks[0].delivery_log[n + 1][2]

\* C35, as the specification states it: deliver_packages returns, and then
\* every package the truck had is delivered and logged once, the truck is
\* empty and at the hub, and the delivery times do not go down along the
\* route.
DeliverCompletes ==
    /\ frame.pc # "raised"
    /\ frame.pc \notin {"done", "raised", "none"} => ENABLED NextDeliver
    /\ frame.pc = "done" => (Delivered /\ TimesInOrder)

\* C35 without the order of the times, which holds: deliver_packages
\* returns, and then every package the truck had is delivered and logged
\* once and the truck is empty and at the hub.
DeliverCompletesButForTimes ==
    /\ frame.pc # "raised"
    /\ frame.pc \notin {"done", "raised", "none"} => ENABLED NextDeliver
    /\ frame.pc = "done" => Delivered

\* A call that returned after it delivered a package at a time of the day
\* before the time it delivered the package before: the truck drove past
\* midnight.
DeliverPastMidnight ==
    /\ frame.pc = "done"
    /\ Delivered
    /\ ~TimesInOrder

----------------------------------------------------------------------------
(* Properties of the lookup. *)

\* C38, as the specification states it: every lookup returns, "not found"
\* for an id that is not in the table and "at the hub", "en route" or
\* "delivered at" with the time for one that is.
LookupAlwaysReturns ==
    last.op = "lookup_package_at_time"
       => /\ last.result.kind = "return"
          /\ last.key \notin DOMAIN packages => last.result = Returned(<<"not found">>)
          /\ last.key \in DOMAIN packages
                => \/ last.result \in {Returned(<<"at the hub">>), Returned(<<"en route">>)}
                   \/ last.result =
                         Returned(<<"delivered at",
                                    objects[packages[last.key]].delivery_time>>)

\* A lookup of a package that has no delivery_time raised AttributeError.
LookupRaised ==
    /\ last.op = "lookup_package_at_time"
    /\ last.key \in DOMAIN packages
    /\ objects[packages[last.key]].delivery_time = NoTime
    /\ last.result = Raised("AttributeError")

\* What holds of the code: a lookup returns "not found" for an id that is
\* not in the table and "delivered at" with the time for a package
\* delivered by the time of the lookup, and raises AttributeError for every
\* other package.
LookupAsCoded ==
    last.op = "lookup_package_at_time"
       => LET delivery_time ==
                 IF last.key \in DOMAIN packages
                 THEN objects[packages[last.key]].delivery_time ELSE NoTime
          IN  last.result =
                 IF last.key \notin DOMAIN packages THEN Returned(<<"not found">>)
                 ELSE IF delivery_time # NoTime /\ delivery_time <= last.args[2]
                 THEN Returned(<<"delivered at", delivery_time>>)
                 ELSE Raised("AttributeError")

----------------------------------------------------------------------------
(* Properties of assign_packages_to_trucks. *)

\* The trucks that have the object o on board.
TrucksWith(o) ==
    {t \in DOMAIN trucks :
        \E i \in 1..Len(trucks[t].packages_on_board) : trucks[t].packages_on_board[i] = o}

\* C36, as the specification states it: the call ends, with a return or an
\* error, whatever the packages of the table.
AssignTerminates == <>(frame.pc \in {"done", "raised"})

\* The while loop is at a truck that is full with the other two full too:
\* it goes round for ever.
AssignSpins ==
    /\ frame.pc = "find"
    /\ \A t \in DOMAIN trucks : Len(trucks[t].packages_on_board) >= TRUCK_CAPACITY

\* What holds of the search: when the while loop begins with a truck that
\* has room, it finds one and the package is added.
AssignFindsRoom ==
    (frame.pc = "find"
     /\ \E t \in DOMAIN trucks : Len(trucks[t].packages_on_board) < TRUCK_CAPACITY)
       ~> (frame.pc = "regular")

\* C37, as the specification states it: when the call has returned, each
\* package of the table is on one truck and no other, and EN_ROUTE, and no
\* truck has more than TRUCK_CAPACITY packages.
AssignsEveryPackage ==
    frame.pc = "done"
       => /\ \A id \in DOMAIN packages :
                /\ Cardinality(TrucksWith(packages[id])) = 1
                /\ objects[packages[id]].status = EN_ROUTE
                /\ objects[packages[id]].status # AT_HUB
          /\ \A t \in DOMAIN trucks :
                Len(trucks[t].packages_on_board) <= TRUCK_CAPACITY

\* A call that returned with a package at the hub and on no truck.
AssignLeftAtHub ==
    /\ frame.pc = "done"
    /\ \E id \in DOMAIN packages :
          /\ TrucksWith(packages[id]) = {}
          /\ objects[packages[id]].status = AT_HUB

\* What holds of a call that returned: no package is on two trucks or twice
\* on one, no truck has more than TRUCK_CAPACITY packages, and a package is
\* EN_ROUTE if and only if it is on a truck, and AT_HUB if not.
AssignsAtMostOnce ==
    frame.pc = "done"
       => /\ \A id \in DOMAIN packages :
                /\ Cardinality(TrucksWith(packages[id])) <= 1
                /\ objects[packages[id]].status =
                      IF TrucksWith(packages[id]) = {} THEN AT_HUB ELSE EN_ROUTE
          /\ \A t \in DOMAIN trucks :
                /\ Len(trucks[t].packages_on_board) <= TRUCK_CAPACITY
                /\ \A i, j \in 1..Len(trucks[t].packages_on_board) :
                      i # j => trucks[t].packages_on_board[i]
                                  # trucks[t].packages_on_board[j]

====
